---- MODULE Spec2Model ----
(***************************************************************************)
(* Offline-resilience engine of the QwickBrain MCP proxy:                  *)
(*   CacheManager      two-tier cache with LRU eviction                    *)
(*   WriteQueueManager durable queue of offline writes and its replay      *)
(*   ConnectionManager connection state machine with backoff               *)
(*   ProxyServer       the tool-call handlers that combine the three       *)
(***************************************************************************)
EXTENDS Integers, Sequences, FiniteSets, TLC

(***************************************************************************)
(* Bounds of the model                                                     *)
(***************************************************************************)
MaxClock == 1
MaxNames == 2
MaxContentLen == 3
MaxDynamicBytes == 2
MaxQueued == 2
MaxSyncCallers == 2
MaxReconnectAttempts == 2
MaxFailures == 4
MaxInFlight == 1
MaxExecutors == 2
MaxCallers == 1
MaxToolWrites == 1
MaxCacheCallers == 2
MaxBatch == 2
MaxInterleaved == 3

(***************************************************************************)
(* Program constants                                                       *)
(***************************************************************************)
EvictLimit == 100
maxAttempts == 3

CRITICAL_DOC_TYPES == {"workflow", "rule", "agent", "template"}

DocTypes == {"workflow", "frd"}
Names == 1..MaxNames
Projects == {""}
Content(n) == [i \in 1..n |-> 1]
Contents == {Content(n) : n \in 1..MaxContentLen}

VARIABLES
  now,            \* the wall clock read by new Date(), in seconds
  documents,      \* rows of table documents, in primary-key order
  memories,       \* rows of table memories, in primary-key order
  lastDynamicInsert, \* sizeBytes of the latest non-critical row written (0: none yet)
  lastEvicted,       \* keys of the rows the latest CacheManager call evicted
  syncQueue,      \* rows of table sync_queue, in primary-key order
  nextId,         \* the next AUTOINCREMENT id of sync_queue
  isSyncing,      \* WriteQueueManager.isSyncing
  pass,           \* per caller of syncPendingOperations: where its call stands
  sentLog,        \* ids handed to upstream since no replay pass was running
  state,              \* ConnectionManager.state
  reconnectAttempts,  \* ConnectionManager.reconnectAttempts
  reconnectTimer,     \* TRUE while the reconnect timer is armed
  healthCheckTimer,   \* TRUE while the periodic health-check timer is armed
  isStopped,          \* ConnectionManager.isStopped
  started,            \* start() has been called
  probes,             \* health checks awaiting upstream, per origin
  failures,           \* probe failures since the latest start or successful probe
  maxReached,         \* maxReconnectAttemptsReached events emitted since then
  exec,               \* per caller of execute: where its call stands
  emitted,            \* the latest event emitted, other than stateChange
  call,           \* per client of the proxy: where its tool call stands
  enqueued,       \* per sync_queue id: the operation and arguments queued
  accepted,       \* the replayed operations upstream has accepted
  isActive,           \* SSEInvalidationListener.isActive
  eventSource,        \* SSEInvalidationListener.eventSource: null, connecting or open
  reconnectTimeout,   \* TRUE while the listener's reconnect timeout is armed
  tasks           \* per concurrent caller of CacheManager: where its call stands

cacheVars == <<documents, memories, lastDynamicInsert, lastEvicted>>
queueVars == <<syncQueue, nextId, isSyncing, pass, sentLog>>
connVars == <<state, reconnectAttempts, reconnectTimer, healthCheckTimer,
              isStopped, started, probes, failures, maxReached, exec, emitted>>
vars == <<now, documents, memories, lastDynamicInsert, lastEvicted,
          syncQueue, nextId, isSyncing, pass, sentLog,
          state, reconnectAttempts, reconnectTimer, healthCheckTimer,
          isStopped, started, probes, failures, maxReached, exec, emitted,
          call, enqueued, accepted,
          isActive, eventSource, reconnectTimeout, tasks>>
sseVars == <<isActive, eventSource, reconnectTimeout>>
proxyVars == <<call, enqueued, accepted, sseVars, tasks>>

(***************************************************************************)
(* CacheManager                                                            *)
(***************************************************************************)
ByteLength(content) == Len(content)

maxDynamicCacheSize == MaxDynamicBytes

DocKey(r) == <<r.docType, r.name, r.project>>
MemKey(r) == <<r.name, r.project>>

\* sum(size_bytes) over rows[lo..hi], by halving.
RECURSIVE SumRange(_, _, _)
SumRange(rows, lo, hi) ==
  IF lo > hi THEN 0
  ELSE IF lo = hi THEN rows[lo].sizeBytes
  ELSE LET mid == (lo + hi) \div 2
       IN  SumRange(rows, lo, mid) + SumRange(rows, mid + 1, hi)

SumSize(rows) == SumRange(rows, 1, Len(rows))

DynamicDocs(docs) == SelectSeq(docs, LAMBDA r : ~r.isCritical)

getDynamicCacheSize(docs, mems) == SumSize(DynamicDocs(docs)) + SumSize(mems)

\* ORDER BY lastAccessedAt ASC over rows given in primary-key order: row i
\* comes before row j; rows with equal lastAccessedAt come out in
\* primary-key order, the order of a scan of the table by rowid.  The
\* statement itself leaves the order of such rows open: SpecTies.
Before(rows, i, j) ==
  \/ rows[i].lastAccessedAt < rows[j].lastAccessedAt
  \/ /\ rows[i].lastAccessedAt = rows[j].lastAccessedAt
     /\ i < j

\* The 0-based position of row i in that order.
Rank(rows, i) == Cardinality({j \in 1..Len(rows) : Before(rows, j, i)})

\* The bytes of the rows of rows[lo..hi] that come before row i.
RECURSIVE SizeBefore(_, _, _, _)
SizeBefore(rows, i, lo, hi) ==
  IF lo > hi THEN 0
  ELSE IF lo = hi THEN (IF Before(rows, lo, i) THEN rows[lo].sizeBytes ELSE 0)
  ELSE LET mid == (lo + hi) \div 2
       IN  SizeBefore(rows, i, lo, mid) + SizeBefore(rows, i, mid + 1, hi)

\* The for-loop of evictLRU over the first `limit` rows of the order: a
\* candidate is deleted when the bytes freed before it are still fewer than
\* bytesToFree.
EvictLoop(rows, limit, freed, bytesToFree) ==
  LET hit == {i \in 1..Len(rows) :
                /\ Rank(rows, i) < limit
                /\ freed + SizeBefore(rows, i, 1, Len(rows)) < bytesToFree}
      deleted == {rows[i] : i \in hit}
  IN  [deleted |-> deleted,
       freed |-> freed + SumSize(SelectSeq(rows, LAMBDA r : r \in deleted))]

\* Mutant: the candidate query without its isCritical = false filter.
DocCandidates_AllTiers(docs) == docs

\* WHERE is_critical = false of the document candidate query.
DocCandidates(docs) == DynamicDocs(docs)

MemCandidates(mems) == mems

evictLRU(docs, mems, bytesToFree) ==
  LET d == EvictLoop(DocCandidates(docs), EvictLimit, 0, bytesToFree)
      m == IF d.freed < bytesToFree
           THEN EvictLoop(MemCandidates(mems), EvictLimit, d.freed, bytesToFree)
           ELSE [deleted |-> {}, freed |-> d.freed]
  IN  [docs |-> SelectSeq(docs, LAMBDA r : r \notin d.deleted),
       mems |-> SelectSeq(mems, LAMBDA r : r \notin m.deleted),
       evicted |-> {DocKey(r) : r \in d.deleted} \cup {MemKey(r) : r \in m.deleted}]

ensureCacheSize(docs, mems, requiredBytes, isCritical) ==
  IF isCritical
  THEN [docs |-> docs, mems |-> mems, evicted |-> {}]
  ELSE LET currentSize == getDynamicCacheSize(docs, mems)
       IN  IF currentSize + requiredBytes <= maxDynamicCacheSize
           THEN [docs |-> docs, mems |-> mems, evicted |-> {}]
           ELSE evictLRU(docs, mems,
                         currentSize + requiredBytes - maxDynamicCacheSize)

\* JavaScript's undefined and null, and the metadata objects of the model
undefined == "undefined"
null == "null"
EmptyObject == "{}"
MetadataObjects == {EmptyObject, "{version: 1}"}

\* project || ''
ProjectValue(project) == IF project \in {undefined, ""} THEN "" ELSE project

\* JSON.stringify and JSON.parse of a metadata object
StringifyMetadata(object) ==
  IF object = EmptyObject THEN "{}" ELSE "{\"version\":1}"
ParseMetadata(text) ==
  IF text = "{}" THEN EmptyObject ELSE "{version: 1}"

\* metadata ? JSON.stringify(metadata) : null
MetadataColumn(metadata) ==
  IF metadata = undefined THEN null ELSE StringifyMetadata(metadata)

\* cached.metadata ? JSON.parse(cached.metadata) : {}
MetadataField(text) ==
  IF text = null THEN EmptyObject ELSE ParseMetadata(text)

FindDoc(docs, key) == {i \in 1..Len(docs) : DocKey(docs[i]) = key}
FindMem(mems, key) == {i \in 1..Len(mems) : MemKey(mems[i]) = key}

\* Mutant: the insert with ON CONFLICT DO NOTHING.
UpsertDocument_KeepFirst(docs, docType, name, project, content, metadata, t) ==
  IF FindDoc(docs, <<docType, name, project>>) # {}
  THEN docs
  ELSE Append(docs, [docType |-> docType, name |-> name, project |-> project,
                     content |-> content, metadata |-> metadata,
                     cachedAt |-> t, lastAccessedAt |-> t,
                     isCritical |-> docType \in CRITICAL_DOC_TYPES,
                     sizeBytes |-> ByteLength(content)])

\* INSERT ... ON CONFLICT DO UPDATE of setDocument: the update leaves
\* cachedAt and isCritical of the existing row as they are.
UpsertDocument(docs, docType, name, project, content, metadata, t) ==
  LET hit == FindDoc(docs, <<docType, name, project>>)
  IN  IF hit = {}
      THEN Append(docs, [docType |-> docType, name |-> name, project |-> project,
                         content |-> content, metadata |-> metadata,
                         cachedAt |-> t,
                         lastAccessedAt |-> t,
                         isCritical |-> docType \in CRITICAL_DOC_TYPES,
                         sizeBytes |-> ByteLength(content)])
      ELSE LET i == CHOOSE i \in hit : TRUE
           IN  [docs EXCEPT ![i].content = content,
                            ![i].metadata = metadata,
                            ![i].lastAccessedAt = t,
                            ![i].sizeBytes = ByteLength(content)]

UpsertMemory(mems, name, project, content, metadata, t) ==
  LET hit == FindMem(mems, <<name, project>>)
  IN  IF hit = {}
      THEN Append(mems, [name |-> name, project |-> project,
                         content |-> content, metadata |-> metadata,
                         cachedAt |-> t,
                         lastAccessedAt |-> t,
                         sizeBytes |-> ByteLength(content)])
      ELSE LET i == CHOOSE i \in hit : TRUE
           IN  [mems EXCEPT ![i].content = content,
                            ![i].metadata = metadata,
                            ![i].lastAccessedAt = t,
                            ![i].sizeBytes = ByteLength(content)]

setDocument(docType, name, content, project, metadata) ==
  LET projectValue == ProjectValue(project)
      isCritical == docType \in CRITICAL_DOC_TYPES
      sizeBytes == ByteLength(content)
      room == ensureCacheSize(documents, memories, sizeBytes, isCritical)
  IN  /\ documents' = UpsertDocument(room.docs, docType, name, projectValue,
                                     content, MetadataColumn(metadata), now)
      /\ memories' = room.mems
      /\ lastDynamicInsert' = IF isCritical THEN lastDynamicInsert ELSE sizeBytes
      /\ lastEvicted' = room.evicted

setMemory(name, content, project, metadata) ==
  LET projectValue == ProjectValue(project)
      sizeBytes == ByteLength(content)
      room == ensureCacheSize(documents, memories, sizeBytes, FALSE)
  IN  /\ documents' = room.docs
      /\ memories' = UpsertMemory(room.mems, name, projectValue, content,
                                  MetadataColumn(metadata), now)
      /\ lastDynamicInsert' = sizeBytes
      /\ lastEvicted' = room.evicted

\* Mutant: the update of a hit sets cachedAt as well.
getDocument_Recached(docType, name, project) ==
  LET hit == FindDoc(documents, <<docType, name, ProjectValue(project)>>)
  IN  /\ documents' = IF hit = {} THEN documents
                      ELSE [documents EXCEPT
                              ![CHOOSE i \in hit : TRUE].lastAccessedAt = now,
                              ![CHOOSE i \in hit : TRUE].cachedAt = now]
      /\ memories' = memories
      /\ UNCHANGED lastDynamicInsert
      /\ lastEvicted' = {}

getDocument(docType, name, project) ==
  LET hit == FindDoc(documents, <<docType, name, ProjectValue(project)>>)
  IN  /\ documents' = IF hit = {} THEN documents
                      ELSE [documents EXCEPT
                              ![CHOOSE i \in hit : TRUE].lastAccessedAt = now]
      /\ memories' = memories
      /\ UNCHANGED lastDynamicInsert
      /\ lastEvicted' = {}

getMemory(name, project) ==
  LET hit == FindMem(memories, <<name, ProjectValue(project)>>)
  IN  /\ memories' = IF hit = {} THEN memories
                     ELSE [memories EXCEPT
                             ![CHOOSE i \in hit : TRUE].lastAccessedAt = now]
      /\ documents' = documents
      /\ UNCHANGED lastDynamicInsert
      /\ lastEvicted' = {}

\* The CachedItem getDocument and getMemory return for a row read at time t.
CachedItem(row, t) ==
  [content |-> row.content,
   metadata |-> MetadataField(row.metadata),
   cachedAt |-> row.cachedAt,
   age |-> t - row.cachedAt]

\* Mutant: the delete without the project condition.
invalidateDocument_AnyProject(docType, name, project) ==
  /\ documents' = SelectSeq(documents,
                            LAMBDA r : ~(r.docType = docType /\ r.name = name))
  /\ memories' = memories
  /\ UNCHANGED lastDynamicInsert
  /\ lastEvicted' = {}

invalidateDocument(docType, name, project) ==
  /\ documents' = SelectSeq(documents,
                            LAMBDA r : DocKey(r) # <<docType, name, ProjectValue(project)>>)
  /\ memories' = memories
  /\ UNCHANGED lastDynamicInsert
  /\ lastEvicted' = {}

invalidateMemory(name, project) ==
  /\ memories' = SelectSeq(memories,
                           LAMBDA r : MemKey(r) # <<name, ProjectValue(project)>>)
  /\ documents' = documents
  /\ UNCHANGED lastDynamicInsert
  /\ lastEvicted' = {}

(***************************************************************************)
(* WriteQueueManager                                                       *)
(***************************************************************************)
Operations == {"create_document", "set_memory"}
QueuedDocTypes == {"workflow"}
QueuedNames == {1}
QueuedContents == {Content(1)}
Payloads == [docType : QueuedDocTypes, name : QueuedNames, content : QueuedContents]
SyncCallers == 1..MaxSyncCallers

\* JSON.stringify and JSON.parse of a payload object
JSONstringify(payload) == <<payload.docType, payload.name, payload.content>>
JSONparse(text) == [docType |-> text[1], name |-> text[2], content |-> text[3]]

QueueRows == {syncQueue[i] : i \in 1..Len(syncQueue)}

WithStatus(rows, status) == SelectSeq(rows, LAMBDA r : r.status = status)

\* ORDER BY created_at: rows of equal createdAt come out in primary-key order
CreatedBefore(rows, i, j) ==
  \/ rows[i].createdAt < rows[j].createdAt
  \/ rows[i].createdAt = rows[j].createdAt /\ i < j

OrderByCreatedAt(rows) ==
  [k \in 1..Len(rows) |->
     rows[CHOOSE i \in 1..Len(rows) :
            Cardinality({j \in 1..Len(rows) : CreatedBefore(rows, j, i)}) = k - 1]]

SetStatus(rows, id, status) ==
  [k \in 1..Len(rows) |->
     IF rows[k].id = id THEN [rows[k] EXCEPT !.status = status] ELSE rows[k]]

SetAttempts(rows, id, attempts) ==
  [k \in 1..Len(rows) |->
     IF rows[k].id = id THEN [rows[k] EXCEPT !.attempts = attempts] ELSE rows[k]]

queueOperation(operation, payload) ==
  /\ syncQueue' = Append(syncQueue,
                    [id |-> nextId, operation |-> operation,
                     payload |-> JSONstringify(payload), createdAt |-> now,
                     status |-> "pending", attempts |-> 0])
  /\ nextId' = nextId + 1

getPendingCount == Len(WithStatus(syncQueue, "pending"))

IdlePass == [pc |-> "idle", pending |-> <<>>, i |-> 1,
             synced |-> 0, failed |-> 0]

\* the caller is about to call syncPendingOperations: on its own, or from
\* syncWriteQueue after the pending rows were counted
AtRest(p) == pass[p].pc \in {"idle", "skipped"}
AtCall(p) == AtRest(p) \/ pass[p].pc = "count"

NoPassRunning == \A p \in SyncCallers : AtCall(p)

\* syncPendingOperations, entered while a pass is running: returns zeros
SyncSkip(p) ==
  /\ AtCall(p)
  /\ isSyncing
  /\ pass' = [pass EXCEPT ![p] = [IdlePass EXCEPT !.pc = "skipped"]]
  /\ UNCHANGED <<syncQueue, nextId, isSyncing, sentLog>>

\* syncPendingOperations, with the isSyncing check left out
SyncStart_Unguarded(p) ==
  /\ AtCall(p)
  /\ isSyncing' = TRUE
  /\ pass' = [pass EXCEPT ![p] = [IdlePass EXCEPT !.pc = "select"]]
  /\ sentLog' = IF NoPassRunning THEN <<>> ELSE sentLog
  /\ UNCHANGED <<syncQueue, nextId>>

\* syncPendingOperations, up to its first await
SyncStart(p) ==
  /\ AtCall(p)
  /\ ~isSyncing
  /\ isSyncing' = TRUE
  /\ pass' = [pass EXCEPT ![p] = [IdlePass EXCEPT !.pc = "select"]]
  /\ sentLog' = IF NoPassRunning THEN <<>> ELSE sentLog
  /\ UNCHANGED <<syncQueue, nextId>>

\* the select of the pending rows
SyncSelect(p) ==
  /\ pass[p].pc = "select"
  /\ pass' = [pass EXCEPT ![p].pc = "loop",
                          ![p].pending = OrderByCreatedAt(WithStatus(syncQueue, "pending")),
                          ![p].i = 1]
  /\ UNCHANGED <<syncQueue, nextId, isSyncing, sentLog>>

\* executeOperation: the next row of the snapshot goes to upstream
executeOperation(p) ==
  /\ pass[p].pc = "loop"
  /\ pass[p].i <= Len(pass[p].pending)
  /\ sentLog' = Append(sentLog, pass[p].pending[pass[p].i].id)
  /\ pass' = [pass EXCEPT ![p].pc = "await"]
  /\ UNCHANGED <<syncQueue, nextId, isSyncing>>

\* the test for the last attempt, with > for >=
ReachedMaxAttempts_Late(newAttempts) == newAttempts > maxAttempts

ReachedMaxAttempts(newAttempts) == newAttempts >= maxAttempts

\* upstream answered: the row is marked completed
MarkCompleted(p) ==
  LET item == pass[p].pending[pass[p].i] IN
  /\ pass[p].pc = "await"
  /\ syncQueue' = SetStatus(syncQueue, item.id, "completed")
  /\ pass' = [pass EXCEPT ![p].pc = "loop", ![p].i = @ + 1, ![p].synced = @ + 1]
  /\ UNCHANGED <<nextId, isSyncing, sentLog>>

\* Mutant: upstream threw and the attempt is not counted.
MarkFailure_Uncounted(p) ==
  /\ pass[p].pc = "await"
  /\ pass' = [pass EXCEPT ![p].pc = "loop", ![p].i = @ + 1]
  /\ UNCHANGED <<syncQueue, nextId, isSyncing, sentLog>>

\* upstream threw: the attempt is counted, the last one fails the row
MarkFailure(p) ==
  LET item == pass[p].pending[pass[p].i]
      newAttempts == item.attempts + 1 IN
  /\ pass[p].pc = "await"
  /\ IF ReachedMaxAttempts(newAttempts)
       THEN /\ syncQueue' = SetAttempts(SetStatus(syncQueue, item.id, "failed"),
                                        item.id, newAttempts)
            /\ pass' = [pass EXCEPT ![p].pc = "loop", ![p].i = @ + 1,
                                    ![p].failed = @ + 1]
       ELSE /\ syncQueue' = SetAttempts(syncQueue, item.id, newAttempts)
            /\ pass' = [pass EXCEPT ![p].pc = "loop", ![p].i = @ + 1]
  /\ UNCHANGED <<nextId, isSyncing, sentLog>>

\* Mutant: cleanupCompleted deletes every row that has not failed.
cleanupCompleted_AllButFailed(rows) == SelectSeq(rows, LAMBDA r : r.status = "failed")

\* cleanupCompleted with the delete left out
cleanupCompleted_KeepsRows(rows) == rows

cleanupCompleted(rows) == SelectSeq(rows, LAMBDA r : r.status # "completed")

\* the end of the pass: cleanupCompleted, then the finally block
SyncFinish(p) ==
  /\ pass[p].pc = "loop"
  /\ pass[p].i > Len(pass[p].pending)
  /\ syncQueue' = cleanupCompleted(syncQueue)
  /\ isSyncing' = FALSE
  /\ pass' = [pass EXCEPT ![p].pc = "idle", ![p].pending = <<>>, ![p].i = 1]
  /\ UNCHANGED <<nextId, sentLog>>

\* retryOperation, called for an operation listed by getFailedOperations
retryOperation(id) ==
  /\ \E r \in QueueRows : r.id = id /\ r.status = "failed"
  /\ syncQueue' = SetAttempts(SetStatus(syncQueue, id, "pending"), id, 0)
  /\ UNCHANGED <<nextId, isSyncing, pass, sentLog>>

clearFailed ==
  /\ syncQueue' = SelectSeq(syncQueue, LAMBDA r : r.status # "failed")
  /\ UNCHANGED <<nextId, isSyncing, pass, sentLog>>

InitQueue ==
  /\ syncQueue = <<>>
  /\ nextId = 1
  /\ isSyncing = FALSE
  /\ pass = [p \in SyncCallers |-> IdlePass]
  /\ sentLog = <<>>

(***************************************************************************)
(* ConnectionManager                                                       *)
(***************************************************************************)
ConnectionStates == {"connected", "disconnected", "reconnecting", "offline"}
ProbeOrigins == {"start", "periodic", "reconnect"}
Executors == 1..MaxExecutors

maxReconnectAttempts == MaxReconnectAttempts

\* config.reconnectBackoff, with the defaults of the configuration schema
reconnectBackoff == [initial |-> 1000, max |-> 60000, multiplier |-> 2]

Min(a, b) == IF a <= b THEN a ELSE b

RECURSIVE pow(_, _)
pow(base, exponent) == IF exponent = 0 THEN 1 ELSE base * pow(base, exponent - 1)

\* the default of config.maxReconnectAttempts
DefaultMaxReconnectAttempts == 10

\* Mutant: the delay is computed after the attempt counter was incremented.
reconnectDelay_AfterIncrement(attempts) ==
  Min(reconnectBackoff.initial * pow(reconnectBackoff.multiplier, attempts + 1),
      reconnectBackoff.max)

\* the delay scheduleReconnect computes, from the attempts made so far
reconnectDelay(attempts) ==
  Min(reconnectBackoff.initial * pow(reconnectBackoff.multiplier, attempts),
      reconnectBackoff.max)

NoEvent == [event |-> "none"]

\* scheduleReconnect, as a function of the fields it reads: the fields after
\* it, given that healthCheck or recordFailure has just set 'disconnected'
scheduleReconnect(timer, attempts) ==
  IF timer
    THEN [state |-> "disconnected", attempts |-> attempts, timer |-> TRUE,
          maxReached |-> FALSE, emits |-> NoEvent]
    ELSE IF attempts >= maxReconnectAttempts
      THEN [state |-> "offline", attempts |-> attempts, timer |-> FALSE,
            maxReached |-> TRUE,
            emits |-> [event |-> "maxReconnectAttemptsReached"]]
      ELSE [state |-> "reconnecting", attempts |-> attempts + 1, timer |-> TRUE,
            maxReached |-> FALSE,
            emits |-> [event |-> "reconnecting", attempt |-> attempts + 1,
                       delay |-> reconnectDelay(attempts)]]

\* Mutant: scheduleHealthCheck does not arm the timer.
scheduleHealthCheck_Unarmed(stopped, timer) == timer

\* scheduleHealthCheck, after the periodic probe or from start
scheduleHealthCheck(stopped, timer) == IF stopped THEN timer ELSE TRUE

\* healthCheck, up to the await of the upstream health check
InFlight == Cardinality({origin \in ProbeOrigins : probes[origin] > 0})

BeginProbe(origin) ==
  /\ probes[origin] = 0
  /\ InFlight < MaxInFlight
  /\ probes' = [probes EXCEPT ![origin] = @ + 1]

start ==
  /\ ~started \/ isStopped
  /\ isStopped' = FALSE
  /\ started' = TRUE
  /\ BeginProbe("start")
  /\ healthCheckTimer' = scheduleHealthCheck(FALSE, healthCheckTimer)
  /\ failures' = 0
  /\ maxReached' = 0
  /\ UNCHANGED <<state, reconnectAttempts, reconnectTimer, exec, emitted>>

stop ==
  /\ started /\ ~isStopped
  /\ isStopped' = TRUE
  /\ healthCheckTimer' = FALSE
  /\ reconnectTimer' = FALSE
  /\ state' = "offline"
  /\ UNCHANGED <<reconnectAttempts, started, probes, failures, maxReached, exec,
                 emitted>>

\* the periodic timer fires: its callback calls healthCheck
HealthCheckTimerFires ==
  /\ healthCheckTimer
  /\ healthCheckTimer' = FALSE
  /\ BeginProbe("periodic")
  /\ UNCHANGED <<state, reconnectAttempts, reconnectTimer, isStopped, started,
                 failures, maxReached, exec, emitted>>

\* the reconnect timer fires: its callback clears the field, calls healthCheck
ReconnectTimerFires ==
  /\ reconnectTimer
  /\ reconnectTimer' = FALSE
  /\ BeginProbe("reconnect")
  /\ UNCHANGED <<state, reconnectAttempts, healthCheckTimer, isStopped, started,
                 failures, maxReached, exec, emitted>>

\* Mutant: a successful probe keeps the reconnect-attempt counter.
ProbeSucceeds_KeepsCounter(origin) ==
  /\ probes[origin] > 0
  /\ probes' = [probes EXCEPT ![origin] = @ - 1]
  /\ state' = "connected"
  /\ reconnectTimer' = FALSE
  /\ healthCheckTimer' = IF origin = "periodic"
                           THEN scheduleHealthCheck(isStopped, healthCheckTimer)
                           ELSE healthCheckTimer
  /\ failures' = 0
  /\ maxReached' = 0
  /\ emitted' = [event |-> "connected"]
  /\ UNCHANGED <<reconnectAttempts, isStopped, started, exec>>

\* healthCheck, upstream healthy
ProbeSucceeds(origin) ==
  /\ probes[origin] > 0
  /\ probes' = [probes EXCEPT ![origin] = @ - 1]
  /\ state' = "connected"
  /\ reconnectAttempts' = 0
  /\ reconnectTimer' = FALSE
  /\ healthCheckTimer' = IF origin = "periodic"
                           THEN scheduleHealthCheck(isStopped, healthCheckTimer)
                           ELSE healthCheckTimer
  /\ failures' = 0
  /\ maxReached' = 0
  /\ emitted' = [event |-> "connected"]
  /\ UNCHANGED <<isStopped, started, exec>>

\* healthCheck, upstream unhealthy or unreachable
ProbeFails(origin) ==
  LET after == scheduleReconnect(reconnectTimer, reconnectAttempts) IN
  /\ probes[origin] > 0
  /\ failures < MaxFailures
  /\ probes' = [probes EXCEPT ![origin] = @ - 1]
  /\ state' = after.state
  /\ reconnectAttempts' = after.attempts
  /\ reconnectTimer' = after.timer
  /\ healthCheckTimer' = IF origin = "periodic"
                           THEN scheduleHealthCheck(isStopped, healthCheckTimer)
                           ELSE healthCheckTimer
  /\ failures' = failures + 1
  /\ maxReached' = IF after.maxReached THEN maxReached + 1 ELSE maxReached
  /\ emitted' = IF after.emits = NoEvent THEN [event |-> "disconnected"]
                                          ELSE after.emits
  /\ UNCHANGED <<isStopped, started, exec>>

\* Mutant: recordFailure leaves the supervisor as it is.
recordFailure_Ignored ==
  [state |-> state, attempts |-> reconnectAttempts, timer |-> reconnectTimer,
   maxReached |-> FALSE, emits |-> NoEvent]

\* recordFailure, as a function of the fields it reads
recordFailure ==
  IF state = "connected"
    THEN scheduleReconnect(reconnectTimer, reconnectAttempts)
    ELSE [state |-> state, attempts |-> reconnectAttempts, timer |-> reconnectTimer,
          maxReached |-> FALSE, emits |-> NoEvent]

IdleExec == [pc |-> "idle", result |-> "none", invokedIn |-> "none"]

\* execute, up to the await of executionLock
ExecuteCall(e) ==
  /\ exec[e].pc = "idle"
  /\ exec' = [exec EXCEPT ![e] = [IdleExec EXCEPT !.pc = "lock"]]
  /\ UNCHANGED <<state, reconnectAttempts, reconnectTimer, healthCheckTimer,
                 isStopped, started, probes, failures, maxReached, emitted>>

\* execute after the await, with the state check left out
ExecuteDispatch_Unchecked(e) ==
  /\ exec[e].pc = "lock"
  /\ exec' = [exec EXCEPT ![e].pc = "running", ![e].invokedIn = state]
  /\ UNCHANGED <<state, reconnectAttempts, reconnectTimer, healthCheckTimer,
                 isStopped, started, probes, failures, maxReached, emitted>>

\* execute after the await: the state check, then the call of fn or the throw
ExecuteDispatch(e) ==
  /\ exec[e].pc = "lock"
  /\ exec' = IF state = "connected"
               THEN [exec EXCEPT ![e].pc = "running", ![e].invokedIn = state]
               ELSE [exec EXCEPT ![e].pc = "idle", ![e].result = "unavailable"]
  /\ UNCHANGED <<state, reconnectAttempts, reconnectTimer, healthCheckTimer,
                 isStopped, started, probes, failures, maxReached, emitted>>

\* fn resolved: execute returns its value
ExecuteReturns(e) ==
  /\ exec[e].pc = "running"
  /\ exec' = [exec EXCEPT ![e].pc = "idle", ![e].result = "value"]
  /\ UNCHANGED <<state, reconnectAttempts, reconnectTimer, healthCheckTimer,
                 isStopped, started, probes, failures, maxReached, emitted>>

\* fn rejected: recordFailure, then the error is thrown on
ExecuteThrows(e) ==
  LET after == recordFailure IN
  /\ exec[e].pc = "running"
  /\ exec' = [exec EXCEPT ![e].pc = "idle", ![e].result = "error"]
  /\ state' = after.state
  /\ reconnectAttempts' = after.attempts
  /\ reconnectTimer' = after.timer
  /\ maxReached' = IF after.maxReached THEN maxReached + 1 ELSE maxReached
  /\ emitted' = IF after.emits = NoEvent THEN emitted ELSE after.emits
  /\ UNCHANGED <<healthCheckTimer, isStopped, started, probes, failures>>

InitConnection ==
  /\ state = "disconnected"
  /\ reconnectAttempts = 0
  /\ reconnectTimer = FALSE
  /\ healthCheckTimer = FALSE
  /\ isStopped = FALSE
  /\ started = FALSE
  /\ probes = [origin \in ProbeOrigins |-> 0]
  /\ failures = 0
  /\ maxReached = 0
  /\ exec = [e \in Executors |-> IdleExec]
  /\ emitted = NoEvent

(***************************************************************************)
(* ProxyServer: the handlers of the cacheable read tools and of the write  *)
(* tools, and the replay started by the 'connected' event                  *)
(***************************************************************************)
Callers == 1..MaxCallers
DocumentWriteTools == {"create_document", "update_document"}
MemoryWriteTools == {"set_memory", "update_memory"}
WriteTools == DocumentWriteTools \cup MemoryWriteTools
DocumentReadTools == {"get_workflow", "get_document"}
ReadTools == DocumentReadTools \cup {"get_memory"}

ToolNames == {1}
ToolContents == {Content(1)}
DocumentArgs == [docType : {"workflow"}, name : ToolNames, content : ToolContents]
MemoryArgs == [docType : {""}, name : ToolNames, content : ToolContents]
DocumentKeys == [docType : {"workflow"}, name : ToolNames]
MemoryKeys == [docType : {""}, name : ToolNames]

\* the operation under which handleCreateDocument and handleSetMemory queue
QueuedAs(handler) ==
  IF handler = "handleCreateDocument" THEN "create_document" ELSE "set_memory"

\* the switch of the CallTool handler
Handler(tool) ==
  IF tool \in DocumentWriteTools THEN "handleCreateDocument"
  ELSE IF tool \in MemoryWriteTools THEN "handleSetMemory"
  ELSE IF tool \in DocumentReadTools THEN "handleGetDocument"
  ELSE "handleGetMemory"

WriteHandlers == {Handler(tool) : tool \in WriteTools}
ReadHandlers == {Handler(tool) : tool \in ReadTools}

IdleCall == [pc |-> "idle", handler |-> "none", args |-> <<>>, envelope |-> <<>>,
             live |-> FALSE, rowsQueued |-> 0, queuedId |-> 0]

\* createMetadata and the envelopes of the handlers
LiveEnvelope == [data |-> "success", queued |-> FALSE, warning |-> FALSE,
                 source |-> "live", status |-> state]
QueuedEnvelope == [data |-> "success", queued |-> TRUE, warning |-> TRUE,
                   source |-> "cache", status |-> state]
CachedEnvelope(row) == [data |-> row.content, age |-> now - row.cachedAt,
                        source |-> "cache", status |-> state]
FetchedEnvelope(content) == [data |-> content, source |-> "live", status |-> state]
UnavailableEnvelope == [error |-> "UNAVAILABLE", source |-> "cache", status |-> state]

CachedRows(handler, key) ==
  IF handler = "handleGetDocument"
    THEN {documents[i] : i \in FindDoc(documents, <<key.docType, key.name, "">>)}
    ELSE {memories[i] : i \in FindMem(memories, <<key.name, "">>)}

\* Mutant: the write handlers without the cache write.
CallWriteTool_Uncached(c, tool, args) ==
  /\ call[c].pc = "idle"
  /\ nextId <= MaxToolWrites
  /\ call' = [call EXCEPT ![c] = [IdleCall EXCEPT !.pc = "check", !.handler = Handler(tool),
                                                  !.args = args]]
  /\ UNCHANGED <<now, cacheVars, queueVars, connVars, enqueued, accepted, sseVars, tasks>>

\* handleCreateDocument / handleSetMemory, up to the connection test:
\* the local cache is written first
CallWriteTool(c, tool, args) ==
  /\ call[c].pc = "idle"
  /\ nextId <= MaxToolWrites
  /\ IF tool \in DocumentWriteTools
       THEN setDocument(args.docType, args.name, args.content, "", undefined)
       ELSE setMemory(args.name, args.content, "", undefined)
  /\ call' = [call EXCEPT ![c] = [IdleCall EXCEPT !.pc = "check", !.handler = Handler(tool),
                                                  !.args = args]]
  /\ UNCHANGED <<now, queueVars, connVars, enqueued, accepted, sseVars, tasks>>

\* queueOperation and the queued envelope
QueueAndReturn(c) ==
  /\ queueOperation(QueuedAs(call[c].handler), call[c].args)
  /\ enqueued' = Append(enqueued, [operation |-> QueuedAs(call[c].handler),
                                   args |-> call[c].args])
  /\ call' = [call EXCEPT ![c].pc = "idle", ![c].envelope = QueuedEnvelope,
                          ![c].rowsQueued = @ + 1, ![c].queuedId = nextId]
  /\ UNCHANGED <<isSyncing, pass, sentLog, accepted, sseVars, tasks>>

\* the connection test of the write handlers: execute, or queue
WriteCheck(c) ==
  /\ call[c].pc = "check"
  /\ IF state = "connected"
       THEN /\ ExecuteCall(c)
            /\ call' = [call EXCEPT ![c].pc = "execute"]
            /\ UNCHANGED <<now, cacheVars, queueVars, enqueued, accepted, sseVars, tasks>>
       ELSE /\ QueueAndReturn(c)
            /\ UNCHANGED <<now, cacheVars, connVars>>

\* the write handlers with the queueing left out of the fall-through: the
\* queued envelope is returned for a write that was never queued
WriteSettled_Unqueued(c) ==
  /\ call[c].pc = "execute"
  /\ call[c].handler \in WriteHandlers
  /\ exec[c].pc = "idle"
  /\ call' = [call EXCEPT ![c].pc = "idle",
                          ![c].envelope = IF exec[c].result = "value"
                                            THEN LiveEnvelope ELSE QueuedEnvelope,
                          ![c].live = (exec[c].result = "value")]
  /\ UNCHANGED <<now, cacheVars, queueVars, connVars, enqueued, accepted, sseVars, tasks>>

\* execute resolved or threw: the live envelope, or the catch block and queue
WriteSettled(c) ==
  /\ call[c].pc = "execute"
  /\ call[c].handler \in WriteHandlers
  /\ exec[c].pc = "idle"
  /\ IF exec[c].result = "value"
       THEN /\ call' = [call EXCEPT ![c].pc = "idle", ![c].envelope = LiveEnvelope,
                                    ![c].live = TRUE]
            /\ UNCHANGED <<now, cacheVars, queueVars, connVars, enqueued, accepted, sseVars, tasks>>
       ELSE /\ QueueAndReturn(c)
            /\ UNCHANGED <<now, cacheVars, connVars>>

\* the read handlers with the connection test moved before the cache lookup
CallReadTool_ConnectedOnly(c, tool, key) ==
  LET rows == CachedRows(Handler(tool), key) IN
  /\ call[c].pc = "idle"
  /\ IF tool \in DocumentReadTools
       THEN getDocument(key.docType, key.name, "")
       ELSE getMemory(key.name, "")
  /\ IF state # "connected"
       THEN /\ call' = [call EXCEPT ![c] =
                          [IdleCall EXCEPT !.handler = Handler(tool), !.args = key,
                                           !.envelope = UnavailableEnvelope]]
            /\ UNCHANGED connVars
       ELSE IF rows # {}
         THEN /\ call' = [call EXCEPT ![c] =
                            [IdleCall EXCEPT !.handler = Handler(tool), !.args = key,
                               !.envelope = CachedEnvelope(CHOOSE r \in rows : TRUE)]]
              /\ UNCHANGED connVars
         ELSE /\ call' = [call EXCEPT ![c] =
                            [IdleCall EXCEPT !.pc = "execute",
                                             !.handler = Handler(tool), !.args = key]]
              /\ ExecuteCall(c)
  /\ UNCHANGED <<now, queueVars, enqueued, accepted, sseVars, tasks>>

\* Mutant: the read handlers call execute on every miss, whatever the state.
CallReadTool_FetchesAlways(c, tool, key) ==
  LET rows == CachedRows(Handler(tool), key) IN
  /\ call[c].pc = "idle"
  /\ IF tool \in DocumentReadTools
       THEN getDocument(key.docType, key.name, "")
       ELSE getMemory(key.name, "")
  /\ IF rows # {}
       THEN /\ call' = [call EXCEPT ![c] =
                          [IdleCall EXCEPT !.handler = Handler(tool), !.args = key,
                             !.envelope = CachedEnvelope(CHOOSE r \in rows : TRUE)]]
            /\ UNCHANGED connVars
       ELSE /\ call' = [call EXCEPT ![c] =
                          [IdleCall EXCEPT !.pc = "execute", !.handler = Handler(tool),
                                           !.args = key]]
            /\ ExecuteCall(c)
  /\ UNCHANGED <<now, queueVars, enqueued, accepted, sseVars, tasks>>

\* handleGetDocument / handleGetMemory, up to the await of execute: the
\* cache lookup, then on a miss the connection test
CallReadTool(c, tool, key) ==
  LET rows == CachedRows(Handler(tool), key) IN
  /\ call[c].pc = "idle"
  /\ IF tool \in DocumentReadTools
       THEN getDocument(key.docType, key.name, "")
       ELSE getMemory(key.name, "")
  /\ IF rows # {}
       THEN /\ call' = [call EXCEPT ![c] =
                          [IdleCall EXCEPT !.handler = Handler(tool), !.args = key,
                             !.envelope = CachedEnvelope(CHOOSE r \in rows : TRUE)]]
            /\ UNCHANGED connVars
       ELSE IF state = "connected"
         THEN /\ call' = [call EXCEPT ![c] =
                            [IdleCall EXCEPT !.pc = "execute", !.handler = Handler(tool),
                                             !.args = key]]
              /\ ExecuteCall(c)
         ELSE /\ call' = [call EXCEPT ![c] =
                            [IdleCall EXCEPT !.handler = Handler(tool), !.args = key,
                                             !.envelope = UnavailableEnvelope]]
              /\ UNCHANGED connVars
  /\ UNCHANGED <<now, queueVars, enqueued, accepted, sseVars, tasks>>

\* Mutant: the read handlers return the fetched row without caching it.
ReadSettled_Unstored(c) ==
  /\ call[c].pc = "execute"
  /\ call[c].handler \in ReadHandlers
  /\ exec[c].pc = "idle"
  /\ IF exec[c].result = "value"
       THEN \E content \in ToolContents :
              call' = [call EXCEPT ![c].pc = "idle",
                                   ![c].envelope = FetchedEnvelope(content)]
       ELSE call' = [call EXCEPT ![c].pc = "idle",
                                 ![c].envelope = UnavailableEnvelope]
  /\ UNCHANGED <<now, cacheVars, queueVars, connVars, enqueued, accepted, sseVars, tasks>>

\* execute resolved with the fetched row, which is cached, or threw
ReadSettled(c) ==
  /\ call[c].pc = "execute"
  /\ call[c].handler \in ReadHandlers
  /\ exec[c].pc = "idle"
  /\ IF exec[c].result = "value"
       THEN \E content \in ToolContents :
              /\ IF call[c].handler = "handleGetDocument"
                   THEN setDocument(call[c].args.docType, call[c].args.name,
                                    content, "", undefined)
                   ELSE setMemory(call[c].args.name, content, "", undefined)
              /\ call' = [call EXCEPT ![c].pc = "idle",
                                      ![c].envelope = FetchedEnvelope(content)]
       ELSE /\ call' = [call EXCEPT ![c].pc = "idle",
                                    ![c].envelope = UnavailableEnvelope]
            /\ UNCHANGED cacheVars
  /\ UNCHANGED <<now, queueVars, connVars, enqueued, accepted, sseVars, tasks>>

\* tools.ts: the tools answered from the cache, and the others
CACHEABLE_TOOLS == {"get_workflow", "get_document", "get_memory"}
requiresConnection(toolName) == toolName \notin CACHEABLE_TOOLS

\* tools of the catalog that the switch of the CallTool handler leaves to
\* its default branch
GenericTools == {"search_codebase", "create_workflow"}

\* the delete tools: the switch has no case for them either
DeleteTools == {"delete_document", "delete_memory"}

\* the envelopes of the default branch, of handleGenericTool and of the
\* catch block of the CallTool handler
OfflineEnvelope == [error |-> "OFFLINE", source |-> "cache", status |-> state]
ToolErrorEnvelope == [error |-> "TOOL_ERROR", source |-> "cache", status |-> state]
GenericEnvelope == [data |-> "result", source |-> "live", status |-> state]

\* the call has returned this envelope
ReturnEnvelope(c, handler, args, envelope) ==
  call' = [call EXCEPT ![c] = [IdleCall EXCEPT !.handler = handler,
                                               !.args = args,
                                               !.envelope = envelope]]

\* Mutant: the default branch without its connection test.
CallGenericTool_Untested(c, tool) ==
  /\ call[c].pc = "idle"
  /\ IF state # "connected"
       THEN /\ ReturnEnvelope(c, "handleGenericTool", tool, UnavailableEnvelope)
            /\ UNCHANGED connVars
       ELSE /\ call' = [call EXCEPT ![c] =
                          [IdleCall EXCEPT !.pc = "execute",
                                           !.handler = "handleGenericTool",
                                           !.args = tool]]
            /\ ExecuteCall(c)
  /\ UNCHANGED <<now, cacheVars, queueVars, enqueued, accepted, sseVars, tasks>>

\* the default branch of the switch and handleGenericTool, up to the await
\* of execute
CallGenericTool(c, tool) ==
  /\ call[c].pc = "idle"
  /\ IF requiresConnection(tool) /\ state # "connected"
       THEN /\ ReturnEnvelope(c, "default", tool, OfflineEnvelope)
            /\ UNCHANGED connVars
       ELSE IF state # "connected"
         THEN /\ ReturnEnvelope(c, "handleGenericTool", tool, UnavailableEnvelope)
              /\ UNCHANGED connVars
         ELSE /\ call' = [call EXCEPT ![c] =
                            [IdleCall EXCEPT !.pc = "execute",
                                             !.handler = "handleGenericTool",
                                             !.args = tool]]
              /\ ExecuteCall(c)
  /\ UNCHANGED <<now, cacheVars, queueVars, enqueued, accepted, sseVars, tasks>>

\* handleGenericTool after execute: the result is returned, or JSON.parse of
\* its text or execute threw and the catch block answers
GenericSettled(c) ==
  /\ call[c].pc = "execute"
  /\ call[c].handler = "handleGenericTool"
  /\ exec[c].pc = "idle"
  /\ \E parsed \in BOOLEAN :
       call' = [call EXCEPT ![c].pc = "idle",
                            ![c].envelope = IF exec[c].result = "value" /\ parsed
                                              THEN GenericEnvelope
                                              ELSE ToolErrorEnvelope]
  /\ UNCHANGED <<now, cacheVars, queueVars, connVars, enqueued, accepted, sseVars, tasks>>

\* Mutant: the CallTool handler without its catch block.
CallToolCatch_Absent(c, handler, args) ==
  call' = [call EXCEPT ![c] = [IdleCall EXCEPT !.handler = handler,
                                               !.args = args,
                                               !.envelope = [escaped |-> TRUE]]]

\* the catch block of the CallTool handler
CallToolCatch(c, handler, args) ==
  ReturnEnvelope(c, handler, args, ToolErrorEnvelope)

\* the store throws in the cache lookup of a read handler, or in the cache
\* write of a write handler: the call ends in the catch block
LookupThrows(c, tool, key) ==
  /\ call[c].pc = "idle"
  /\ CallToolCatch(c, Handler(tool), key)
  /\ UNCHANGED <<now, cacheVars, queueVars, connVars, enqueued, accepted, sseVars, tasks>>

CacheWriteThrows(c, tool, args) ==
  /\ call[c].pc = "idle"
  /\ CallToolCatch(c, Handler(tool), args)
  /\ UNCHANGED <<now, cacheVars, queueVars, connVars, enqueued, accepted, sseVars, tasks>>

\* the store throws in queueOperation
QueueThrows(c) ==
  /\ call[c].handler \in WriteHandlers
  /\ \/ call[c].pc = "check" /\ state # "connected"
     \/ call[c].pc = "execute" /\ exec[c].pc = "idle" /\ exec[c].result # "value"
  /\ CallToolCatch(c, call[c].handler, call[c].args)
  /\ UNCHANGED <<now, cacheVars, queueVars, connVars, enqueued, accepted, sseVars, tasks>>

\* the store throws when a read handler caches the fetched row: the
\* handler's own catch block falls through to the UNAVAILABLE envelope
FetchedWriteThrows(c) ==
  /\ call[c].pc = "execute"
  /\ call[c].handler \in ReadHandlers
  /\ exec[c].pc = "idle"
  /\ exec[c].result = "value"
  /\ call' = [call EXCEPT ![c].pc = "idle", ![c].envelope = UnavailableEnvelope]
  /\ UNCHANGED <<now, cacheVars, queueVars, connVars, enqueued, accepted, sseVars, tasks>>

\* the 'connected' listener: syncWriteQueue starts, up to the await of
\* getPendingCount
OnConnected ==
  \E p \in SyncCallers :
    /\ AtRest(p)
    /\ \A q \in SyncCallers : q < p => ~AtRest(q)
    /\ pass' = [pass EXCEPT ![p].pc = "count"]

\* syncWriteQueue after the await: return, or call syncPendingOperations
syncWriteQueue(p) ==
  /\ pass[p].pc = "count"
  /\ IF getPendingCount = 0
       THEN /\ pass' = [pass EXCEPT ![p].pc = "idle"]
            /\ UNCHANGED <<syncQueue, nextId, isSyncing, sentLog>>
       ELSE SyncStart(p) \/ SyncSkip(p)

\* the concurrent callers of CacheManager, none of them in a call
CacheCallers == 1..MaxCacheCallers
IdleTask == [pc |-> "idle", method |-> "none", args |-> <<>>, seen |-> {},
             returned |-> {}]

InitProxy ==
  /\ call = [c \in Callers |-> IdleCall]
  /\ enqueued = <<>>
  /\ accepted = <<>>
  /\ isActive = FALSE
  /\ eventSource = null
  /\ reconnectTimeout = FALSE
  /\ tasks = [t \in CacheCallers |-> IdleTask]

(***************************************************************************)
(* The wall clock: it advances, or is set back by a clock correction.      *)
(***************************************************************************)
Tick ==
  /\ now < MaxClock
  /\ now' = now + 1

ClockSetBack ==
  /\ now > 0
  /\ now' = now - 1

(***************************************************************************)
(* SpecCache: CacheManager calls, one at a time, on an empty database,     *)
(* while the clock advances.                                               *)
(***************************************************************************)
InitCache ==
  /\ now = 0
  /\ documents = <<>>
  /\ memories = <<>>
  /\ lastDynamicInsert = 0
  /\ lastEvicted = {}
  /\ InitQueue
  /\ InitConnection
  /\ InitProxy

CallSetDocument ==
  /\ \E docType \in DocTypes, name \in Names, content \in Contents, project \in Projects :
       setDocument(docType, name, content, project, undefined)
  /\ UNCHANGED <<now, queueVars, connVars, proxyVars>>

CallSetMemory ==
  /\ \E name \in Names, content \in Contents, project \in Projects :
       setMemory(name, content, project, undefined)
  /\ UNCHANGED <<now, queueVars, connVars, proxyVars>>

CallGetDocument ==
  /\ \E docType \in DocTypes, name \in Names, project \in Projects :
       getDocument(docType, name, project)
  /\ UNCHANGED <<now, queueVars, connVars, proxyVars>>

CallGetMemory ==
  /\ \E name \in Names, project \in Projects : getMemory(name, project)
  /\ UNCHANGED <<now, queueVars, connVars, proxyVars>>

CallInvalidateDocument ==
  /\ \E docType \in DocTypes, name \in Names, project \in Projects :
       invalidateDocument(docType, name, project)
  /\ UNCHANGED <<now, queueVars, connVars, proxyVars>>

CallInvalidateMemory ==
  /\ \E name \in Names, project \in Projects : invalidateMemory(name, project)
  /\ UNCHANGED <<now, queueVars, connVars, proxyVars>>

ClockTick == Tick /\ UNCHANGED <<cacheVars, queueVars, connVars, proxyVars>>

NextCache ==
  \/ CallSetDocument
  \/ CallSetMemory
  \/ CallGetDocument
  \/ CallGetMemory
  \/ CallInvalidateDocument
  \/ CallInvalidateMemory
  \/ ClockTick

SpecCache == InitCache /\ [][NextCache]_vars

(***************************************************************************)
(* SpecKeys: a caller of CacheManager makes its calls one at a time on an  *)
(* empty database, for one name under two non-critical document types and  *)
(* under the global and a named project, with and without metadata, while  *)
(* the clock advances; call[KeysCaller] keeps the latest call and what it     *)
(* returned (the set of CachedItems: empty for null and for void).          *)
(***************************************************************************)
KeyDocTypes == {"frd", "design"}
KeyNames == {1}
ProjectArgs == {undefined, "p"}
MetadataArgs == {undefined} \cup MetadataObjects
KeyContents == {Content(1), Content(MaxContentLen)}

\* the caller whose record logs the calls of SpecKeys
KeysCaller == CHOOSE c \in Callers : \A d \in Callers : c <= d

Returned(c, method, args, value) ==
  call' = [call EXCEPT ![c] = [IdleCall EXCEPT !.pc = "returned",
                                               !.handler = method,
                                               !.args = args,
                                               !.envelope = value]]

KeysSetDocument ==
  /\ \E c \in {KeysCaller}, docType \in KeyDocTypes, name \in KeyNames,
        content \in KeyContents, project \in ProjectArgs, metadata \in MetadataArgs :
       /\ setDocument(docType, name, content, project, metadata)
       /\ Returned(c, "setDocument", <<docType, name, content, project, metadata>>, {})
  /\ UNCHANGED <<now, queueVars, connVars, enqueued, accepted, sseVars, tasks>>

KeysSetMemory ==
  /\ \E c \in {KeysCaller}, name \in KeyNames, content \in KeyContents,
        project \in ProjectArgs, metadata \in MetadataArgs :
       /\ setMemory(name, content, project, metadata)
       /\ Returned(c, "setMemory", <<name, content, project, metadata>>, {})
  /\ UNCHANGED <<now, queueVars, connVars, enqueued, accepted, sseVars, tasks>>

KeysGetDocument ==
  /\ \E c \in {KeysCaller}, docType \in KeyDocTypes, name \in KeyNames,
        project \in ProjectArgs :
       /\ getDocument(docType, name, project)
       /\ Returned(c, "getDocument", <<docType, name, project>>,
                   {CachedItem(documents[i], now) :
                      i \in FindDoc(documents, <<docType, name, ProjectValue(project)>>)})
  /\ UNCHANGED <<now, queueVars, connVars, enqueued, accepted, sseVars, tasks>>

KeysGetMemory ==
  /\ \E c \in {KeysCaller}, name \in KeyNames, project \in ProjectArgs :
       /\ getMemory(name, project)
       /\ Returned(c, "getMemory", <<name, project>>,
                   {CachedItem(memories[i], now) :
                      i \in FindMem(memories, <<name, ProjectValue(project)>>)})
  /\ UNCHANGED <<now, queueVars, connVars, enqueued, accepted, sseVars, tasks>>

KeysInvalidateDocument ==
  /\ \E c \in {KeysCaller}, docType \in KeyDocTypes, name \in KeyNames,
        project \in ProjectArgs :
       /\ invalidateDocument(docType, name, project)
       /\ Returned(c, "invalidateDocument", <<docType, name, project>>, {})
  /\ UNCHANGED <<now, queueVars, connVars, enqueued, accepted, sseVars, tasks>>

KeysInvalidateMemory ==
  /\ \E c \in {KeysCaller}, name \in KeyNames, project \in ProjectArgs :
       /\ invalidateMemory(name, project)
       /\ Returned(c, "invalidateMemory", <<name, project>>, {})
  /\ UNCHANGED <<now, queueVars, connVars, enqueued, accepted, sseVars, tasks>>

NextKeys ==
  \/ KeysSetDocument
  \/ KeysSetMemory
  \/ KeysGetDocument
  \/ KeysGetMemory
  \/ KeysInvalidateDocument
  \/ KeysInvalidateMemory
  \/ ClockTick

SpecKeys == InitCache /\ [][NextKeys]_vars

(***************************************************************************)
(* SSEInvalidationListener: the stream and the handlers of its events      *)
(***************************************************************************)
\* what JSON.parse makes of the data of an event: it throws, or it returns
\* an invalidation event, or an array of them
\* !event.docType
Falsy(value) == value \in {undefined, ""}

EventDocTypes == {undefined, "frd"}
DocumentEvents ==
  [type : {"document"}, docType : EventDocTypes, name : KeyNames, project : ProjectArgs]
MemoryEvents ==
  [type : {"memory"}, docType : {undefined}, name : KeyNames, project : ProjectArgs]
OtherEvents ==
  [type : {"other"}, docType : {undefined}, name : KeyNames, project : {undefined}]
InvalidationEvents == DocumentEvents \cup MemoryEvents \cup OtherEvents
BatchMembers ==
  {e \in DocumentEvents \cup MemoryEvents : Falsy(e.docType) => e.project = undefined}
Arrays == UNION {[1..n -> BatchMembers] : n \in 0..MaxBatch}
Unparsable == [parses |-> FALSE, isArray |-> FALSE, value |-> <<>>]
EventData ==
  {Unparsable} \cup {[parses |-> TRUE, isArray |-> FALSE, value |-> <<e>>] :
                       e \in InvalidationEvents}
BatchData ==
  {Unparsable}
    \cup {[parses |-> TRUE, isArray |-> FALSE, value |-> <<e>>] : e \in BatchMembers}
    \cup {[parses |-> TRUE, isArray |-> TRUE, value |-> a] : a \in Arrays}

\* start and connect
ListenerStart ==
  /\ ~isActive
  /\ isActive' = TRUE
  /\ eventSource' = "connecting"
  /\ UNCHANGED reconnectTimeout

\* onopen
ListenerOpens ==
  /\ eventSource = "connecting"
  /\ eventSource' = "open"
  /\ reconnectTimeout' = FALSE
  /\ UNCHANGED isActive

\* Mutant: onerror schedules the reconnection without testing isActive.
onerror_Unchecked ==
  /\ eventSource' = null
  /\ reconnectTimeout' = TRUE
  /\ UNCHANGED isActive

\* the onerror callback: the stream is closed and, while the listener is
\* active and no reconnection is pending, a reconnection is scheduled
onerror ==
  /\ eventSource' = null
  /\ reconnectTimeout' = (reconnectTimeout \/ isActive)
  /\ UNCHANGED isActive

\* onerror of the stream that is open or connecting
ListenerError ==
  /\ eventSource # null
  /\ onerror

\* the reconnect timeout fires: connect
ListenerReconnects ==
  /\ reconnectTimeout
  /\ reconnectTimeout' = FALSE
  /\ eventSource' = IF isActive THEN "connecting" ELSE eventSource
  /\ UNCHANGED isActive

\* stop
ListenerStop ==
  /\ isActive
  /\ isActive' = FALSE
  /\ reconnectTimeout' = FALSE
  /\ eventSource' = null

\* start, whatever the listener is doing: it returns at once when active
StartListener == IF isActive THEN UNCHANGED sseVars ELSE ListenerStart

\* stop, whatever the listener is doing
StopListener ==
  /\ isActive' = FALSE
  /\ reconnectTimeout' = FALSE
  /\ eventSource' = null

isListening == isActive /\ eventSource = "open"

\* the handler of caller t has settled: what it was given, and whether its
\* promise resolved
Handled(t, method, data, resolved) ==
  tasks' = [tasks EXCEPT ![t] = [IdleTask EXCEPT !.method = method,
                                                 !.args = data,
                                                 !.returned = {resolved}]]

\* Mutant: the handler drops the project of the event.
handleInvalidationEvent_NoProject(t, data) ==
  LET event == data.value[1] IN
  /\ IF ~data.parses
       THEN UNCHANGED cacheVars
       ELSE IF event.type = "document"
         THEN IF Falsy(event.docType)
                THEN UNCHANGED cacheVars
                ELSE invalidateDocument(event.docType, event.name, undefined)
         ELSE IF event.type = "memory"
           THEN invalidateMemory(event.name, undefined)
           ELSE UNCHANGED cacheVars
  /\ Handled(t, "handleInvalidationEvent", data, TRUE)

\* handleInvalidationEvent: JSON.parse, then one DELETE, all in a try block
handleInvalidationEvent(t, data) ==
  LET event == data.value[1] IN
  /\ IF ~data.parses
       THEN UNCHANGED cacheVars
       ELSE IF event.type = "document"
         THEN IF Falsy(event.docType)
                THEN UNCHANGED cacheVars
                ELSE invalidateDocument(event.docType, event.name, event.project)
         ELSE IF event.type = "memory"
           THEN invalidateMemory(event.name, event.project)
           ELSE UNCHANGED cacheVars
  /\ Handled(t, "handleInvalidationEvent", data, TRUE)

\* the members of a batch that run a DELETE
Deleting(events) ==
  {i \in DOMAIN events :
     \/ events[i].type = "document" /\ ~Falsy(events[i].docType)
     \/ events[i].type = "memory"}

\* handleBatchInvalidation, up to the await of Promise.all: JSON.parse and
\* events.map, which throws unless the value is an array
handleBatchInvalidation(t, data) ==
  /\ IF data.parses /\ data.isArray /\ Deleting(data.value) # {}
       THEN tasks' = [tasks EXCEPT ![t] =
                        [IdleTask EXCEPT !.pc = "members",
                                         !.method = "handleBatchInvalidation",
                                         !.args = data,
                                         !.seen = Deleting(data.value)]]
       ELSE Handled(t, "handleBatchInvalidation", data, TRUE)
  /\ UNCHANGED cacheVars

\* the DELETE of one member of the batch
BatchMemberDeletes(t, i) ==
  LET event == tasks[t].args.value[i] IN
  /\ tasks[t].pc = "members"
  /\ i \in tasks[t].seen
  /\ IF event.type = "document"
       THEN invalidateDocument(event.docType, event.name, event.project)
       ELSE invalidateMemory(event.name, event.project)
  /\ tasks' = [tasks EXCEPT ![t].seen = @ \ {i}]

\* Promise.all resolves
BatchResolves(t) ==
  /\ tasks[t].pc = "members"
  /\ tasks[t].seen = {}
  /\ tasks' = [tasks EXCEPT ![t] = IdleTask]
  /\ UNCHANGED cacheVars

(***************************************************************************)
(* SpecSSE: the invalidation stream opens, fails and reopens, and delivers *)
(* single and batch invalidation events, well-formed or not, for one name  *)
(* under the global and a named project, while the cache holds rows of two *)
(* document types and memories; rows are written while no handler of the   *)
(* listener is running.  tasks[t] keeps what the latest handler that ran   *)
(* as caller t was given, until the next row is written.                   *)
(***************************************************************************)
\* the content of every row written: MaxDynamicBytes rows fit the dynamic tier
SseContent == <<0>>

NoHandlerRunning == \A t \in CacheCallers : tasks[t].pc = "idle"

\* the handler of an event runs as the first caller that is not in a call
FreeCaller(t) ==
  /\ tasks[t].pc = "idle"
  /\ \A u \in CacheCallers : u < t => tasks[u].pc # "idle"

SseSetDocument ==
  /\ NoHandlerRunning
  /\ \E docType \in KeyDocTypes, name \in KeyNames, project \in ProjectArgs :
       setDocument(docType, name, SseContent, project, undefined)
  /\ tasks' = [t \in CacheCallers |-> IdleTask]
  /\ UNCHANGED <<now, queueVars, connVars, call, enqueued, accepted, sseVars>>

SseSetMemory ==
  /\ NoHandlerRunning
  /\ \E name \in KeyNames, project \in ProjectArgs :
       setMemory(name, SseContent, project, undefined)
  /\ tasks' = [t \in CacheCallers |-> IdleTask]
  /\ UNCHANGED <<now, queueVars, connVars, call, enqueued, accepted, sseVars>>

SseStream ==
  /\ \/ ListenerStart
     \/ ListenerOpens
     \/ ListenerError
     \/ ListenerReconnects
     \/ ListenerStop
  /\ UNCHANGED <<now, cacheVars, queueVars, connVars, call, enqueued, accepted, tasks>>

SseEvent ==
  /\ eventSource = "open"
  /\ \E t \in CacheCallers, data \in EventData :
       /\ FreeCaller(t)
       /\ handleInvalidationEvent(t, data)
  /\ UNCHANGED <<now, queueVars, connVars, call, enqueued, accepted, sseVars>>

SseBatch ==
  /\ eventSource = "open"
  /\ \E t \in CacheCallers, data \in BatchData :
       /\ FreeCaller(t)
       /\ handleBatchInvalidation(t, data)
  /\ UNCHANGED <<now, queueVars, connVars, call, enqueued, accepted, sseVars>>

SseBatchStep ==
  /\ \E t \in CacheCallers :
       \/ \E i \in 1..MaxBatch : BatchMemberDeletes(t, i)
       \/ BatchResolves(t)
  /\ UNCHANGED <<now, queueVars, connVars, call, enqueued, accepted, sseVars>>

NextSSE ==
  \/ SseSetDocument
  \/ SseSetMemory
  \/ SseStream
  \/ SseEvent
  \/ SseBatch
  \/ SseBatchStep

SpecSSE == InitCache /\ [][NextSSE]_vars

(***************************************************************************)
(* SpecListener: the owner of the listener calls start, stop and           *)
(* isListening at any time, whatever the listener is doing; the stream     *)
(* opens, fails, and may deliver an error it had queued when it was closed *)
(* by stop or by an earlier error; the reconnect timeout fires; rows are   *)
(* written and single events arrive while the stream is open.              *)
(* call[KeysCaller] keeps the latest operation of the listener, the fields *)
(* it found and what it returned.                                          *)
(***************************************************************************)
ListenerFields == <<isActive, eventSource, reconnectTimeout>>

ListenerLogged(method, value) == Returned(KeysCaller, method, ListenerFields, value)

ListenerStartCalled ==
  /\ StartListener
  /\ ListenerLogged("start", {})
  /\ UNCHANGED <<now, cacheVars, queueVars, connVars, enqueued, accepted, tasks>>

ListenerStopCalled ==
  /\ StopListener
  /\ ListenerLogged("stop", {})
  /\ UNCHANGED <<now, cacheVars, queueVars, connVars, enqueued, accepted, tasks>>

ListenerIsListeningCalled ==
  /\ ListenerLogged("isListening", {isListening})
  /\ UNCHANGED <<now, cacheVars, queueVars, connVars, enqueued, accepted, sseVars, tasks>>

ListenerOnOpen ==
  /\ ListenerOpens
  /\ ListenerLogged("onopen", {})
  /\ UNCHANGED <<now, cacheVars, queueVars, connVars, enqueued, accepted, tasks>>

\* an error of the current stream, or one a stream that stop or onerror has
\* just closed had already queued
ListenerOnError ==
  /\ eventSource # null \/ call[KeysCaller].handler \in {"stop", "onerror"}
  /\ onerror
  /\ ListenerLogged("onerror", {})
  /\ UNCHANGED <<now, cacheVars, queueVars, connVars, enqueued, accepted, tasks>>

ListenerTimeoutFires ==
  /\ ListenerReconnects
  /\ ListenerLogged("timeout", {})
  /\ UNCHANGED <<now, cacheVars, queueVars, connVars, enqueued, accepted, tasks>>

NextListener ==
  \/ ListenerStartCalled
  \/ ListenerStopCalled
  \/ ListenerIsListeningCalled
  \/ ListenerOnOpen
  \/ ListenerOnError
  \/ ListenerTimeoutFires
  \/ SseSetMemory
  \/ SseEvent

SpecListener == InitCache /\ [][NextListener]_vars

(***************************************************************************)
(* CacheManager, one store access at a time: setDocument, setMemory,       *)
(* getDocument and getMemory as the sequences of statements they await.    *)
(* Each statement takes effect in one step; the calls of several callers   *)
(* interleave between them.                                                *)
(***************************************************************************)
NoCall == [pc |-> "idle", method |-> "none", args |-> <<>>, seen |-> <<>>,
           returned |-> <<>>, need |-> 0, candidates |-> <<>>, k |-> 1,
           freed |-> 0]

\* ORDER BY last_accessed_at LIMIT limit over the rows of a table
OrderByLastAccessedAt(rows, limit) ==
  [k \in 1..Min(Len(rows), limit) |->
     rows[CHOOSE i \in 1..Len(rows) : Rank(rows, i) = k - 1]]

\* the statement a call of setDocument or setMemory awaits next: the
\* for-loops of evictLRU, the test between them, and the insert
NextStatement(task) ==
  IF task.pc = "evictDocs" /\ task.k <= Len(task.candidates) /\ task.freed < task.need
    THEN "evictDocs"
  ELSE IF task.pc = "evictDocs" /\ task.freed < task.need
    THEN "memCandidates"
  ELSE IF task.pc = "evictMems" /\ task.k <= Len(task.candidates) /\ task.freed < task.need
    THEN "evictMems"
  ELSE "insert"

\* setDocument and setMemory up to the first await: ensureCacheSize returns
\* at once for a critical row, and awaits getDynamicCacheSize otherwise
SetCalled(t, method, docType, name, content) ==
  /\ tasks[t].pc = "idle"
  /\ tasks' = [tasks EXCEPT ![t] =
       [NoCall EXCEPT !.pc = IF docType \in CRITICAL_DOC_TYPES THEN "insert"
                                                                ELSE "size",
                      !.method = method,
                      !.args = [docType |-> docType, name |-> name,
                                content |-> content]]]
  /\ UNCHANGED cacheVars

\* ensureCacheSize: the sum query, then the test against the limit
EnsureCacheSizeReads(t) ==
  LET currentSize == getDynamicCacheSize(documents, memories)
      requiredBytes == ByteLength(tasks[t].args.content) IN
  /\ tasks[t].pc = "size"
  /\ tasks' = IF currentSize + requiredBytes <= maxDynamicCacheSize
                THEN [tasks EXCEPT ![t].pc = "insert"]
                ELSE [tasks EXCEPT ![t].pc = "docCandidates",
                                   ![t].need = currentSize + requiredBytes
                                               - maxDynamicCacheSize]
  /\ UNCHANGED cacheVars

\* evictLRU: the candidate query of a table
SelectCandidates(t) ==
  /\ tasks[t].pc \in {"docCandidates", "memCandidates"}
  /\ LET found == IF tasks[t].pc = "docCandidates"
                    THEN OrderByLastAccessedAt(DocCandidates(documents), EvictLimit)
                    ELSE OrderByLastAccessedAt(MemCandidates(memories), EvictLimit)
         loop == IF tasks[t].pc = "docCandidates" THEN "evictDocs" ELSE "evictMems"
         selected == [tasks[t] EXCEPT !.pc = loop, !.candidates = found, !.k = 1]
     IN  tasks' = [tasks EXCEPT ![t] = [selected EXCEPT !.pc = NextStatement(selected)]]
  /\ UNCHANGED cacheVars

\* evictLRU: the DELETE of the next candidate, by the id of the row that was
\* selected; freed grows by its size whether or not the row is still there
DeleteCandidate(t) ==
  /\ tasks[t].pc \in {"evictDocs", "evictMems"}
  /\ LET row == tasks[t].candidates[tasks[t].k]
         deleted == [tasks[t] EXCEPT !.k = @ + 1, !.freed = @ + row.sizeBytes]
     IN  /\ IF tasks[t].pc = "evictDocs"
              THEN /\ documents' = SelectSeq(documents,
                                             LAMBDA r : DocKey(r) # DocKey(row))
                   /\ memories' = memories
              ELSE /\ memories' = SelectSeq(memories,
                                            LAMBDA r : MemKey(r) # MemKey(row))
                   /\ documents' = documents
         /\ tasks' = [tasks EXCEPT ![t] = [deleted EXCEPT !.pc = NextStatement(deleted)]]
  /\ UNCHANGED <<lastDynamicInsert, lastEvicted>>

\* the INSERT ... ON CONFLICT DO UPDATE that ends setDocument and setMemory
InsertRow(t) ==
  /\ tasks[t].pc = "insert"
  /\ IF tasks[t].method = "setDocument"
       THEN /\ documents' = UpsertDocument(documents, tasks[t].args.docType,
                                           tasks[t].args.name, "",
                                           tasks[t].args.content, null, now)
            /\ memories' = memories
       ELSE /\ memories' = UpsertMemory(memories, tasks[t].args.name, "",
                                        tasks[t].args.content, null, now)
            /\ documents' = documents
  /\ lastDynamicInsert' = IF tasks[t].args.docType \in CRITICAL_DOC_TYPES
                            THEN lastDynamicInsert
                            ELSE ByteLength(tasks[t].args.content)
  /\ tasks' = [tasks EXCEPT ![t].pc = "done"]
  /\ UNCHANGED lastEvicted

\* getDocument and getMemory up to the await of the select
GetCalled(t, method, docType, name) ==
  /\ tasks[t].pc = "idle"
  /\ tasks' = [tasks EXCEPT ![t] =
       [NoCall EXCEPT !.pc = "select", !.method = method,
                      !.args = [docType |-> docType, name |-> name]]]
  /\ UNCHANGED cacheVars

\* the select: null (no item in returned) is returned when no row has
\* the key
SelectRow(t) ==
  /\ tasks[t].pc = "select"
  /\ LET rows == IF tasks[t].method = "getDocument"
                   THEN SelectSeq(documents,
                          LAMBDA r : DocKey(r) = <<tasks[t].args.docType,
                                                   tasks[t].args.name, "">>)
                   ELSE SelectSeq(memories,
                          LAMBDA r : MemKey(r) = <<tasks[t].args.name, "">>)
     IN  tasks' = IF rows = <<>>
                    THEN [tasks EXCEPT ![t].pc = "done", ![t].returned = <<>>]
                    ELSE [tasks EXCEPT ![t].pc = "touch", ![t].seen = <<rows[1]>>]
  /\ UNCHANGED cacheVars

\* the UPDATE of last_accessed_at by the id of the row that was selected (no
\* row is updated when it is gone), then the return of the CachedItem
TouchRow(t) ==
  /\ tasks[t].pc = "touch"
  /\ LET cached == tasks[t].seen[1]
     IN  /\ IF tasks[t].method = "getDocument"
              THEN /\ documents' = [i \in 1..Len(documents) |->
                                      IF DocKey(documents[i]) = DocKey(cached)
                                        THEN [documents[i] EXCEPT !.lastAccessedAt = now]
                                        ELSE documents[i]]
                   /\ memories' = memories
              ELSE /\ memories' = [i \in 1..Len(memories) |->
                                     IF MemKey(memories[i]) = MemKey(cached)
                                       THEN [memories[i] EXCEPT !.lastAccessedAt = now]
                                       ELSE memories[i]]
                   /\ documents' = documents
         /\ tasks' = [tasks EXCEPT ![t].pc = "done",
                                   ![t].returned = <<CachedItem(cached, now)>>]
  /\ UNCHANGED <<lastDynamicInsert, lastEvicted>>

(***************************************************************************)
(* SpecInterleaved: each of several callers makes one call of CacheManager *)
(* on an empty database: a write of a non-critical document or of a memory *)
(* under a name of its own, or a read of a name; the calls start in any    *)
(* order and interleave at every await.  No key is written twice, so a row *)
(* and its id stand for each other.                                        *)
(***************************************************************************)
Interleaved == 1..MaxInterleaved
InterleavedContents == {Content(1), Content(MaxDynamicBytes)}

InitInterleaved ==
  /\ now = 0
  /\ documents = <<>>
  /\ memories = <<>>
  /\ lastDynamicInsert = 0
  /\ lastEvicted = {}
  /\ InitQueue
  /\ InitConnection
  /\ call = [c \in Callers |-> IdleCall]
  /\ enqueued = <<>>
  /\ accepted = <<>>
  /\ isActive = FALSE
  /\ eventSource = null
  /\ reconnectTimeout = FALSE
  /\ tasks = [t \in Interleaved |-> NoCall]

InterleavedSet ==
  /\ \E t \in Interleaved, content \in InterleavedContents :
       \/ SetCalled(t, "setDocument", "frd", t, content)
       \/ SetCalled(t, "setMemory", "", t, content)
  /\ UNCHANGED <<now, queueVars, connVars, call, enqueued, accepted, sseVars>>

InterleavedGet ==
  /\ \E t \in Interleaved, name \in Interleaved :
       \/ GetCalled(t, "getDocument", "frd", name)
       \/ GetCalled(t, "getMemory", "", name)
  /\ UNCHANGED <<now, queueVars, connVars, call, enqueued, accepted, sseVars>>

InterleavedSetStep ==
  /\ \E t \in Interleaved :
       \/ EnsureCacheSizeReads(t)
       \/ SelectCandidates(t)
       \/ DeleteCandidate(t)
       \/ InsertRow(t)
  /\ UNCHANGED <<now, queueVars, connVars, call, enqueued, accepted, sseVars>>

InterleavedGetStep ==
  /\ \E t \in Interleaved : SelectRow(t) \/ TouchRow(t)
  /\ UNCHANGED <<now, queueVars, connVars, call, enqueued, accepted, sseVars>>

NextInterleaved ==
  \/ InterleavedSet
  \/ InterleavedGet
  \/ InterleavedSetStep
  \/ InterleavedGetStep
  \/ ClockTick

SpecInterleaved == InitInterleaved /\ [][NextInterleaved]_vars

(***************************************************************************)
(* SpecTies: the callers of SpecInterleaved write one after the other (a   *)
(* call starts when no other is running), and the candidate queries of     *)
(* evictLRU, which order by last_accessed_at alone, return the rows of     *)
(* equal last_accessed_at in any order: the statement names no second sort *)
(* key, and SQL leaves the order of such rows to the engine.               *)
(***************************************************************************)
\* the orders of the rows of a table that ascend in last_accessed_at
AscendingOrders(rows) ==
  {p \in [1..Len(rows) -> 1..Len(rows)] :
     /\ \A a, b \in 1..Len(rows) : a # b => p[a] # p[b]
     /\ \A a, b \in 1..Len(rows) :
          a < b => rows[p[a]].lastAccessedAt <= rows[p[b]].lastAccessedAt}

\* the results ORDER BY last_accessed_at LIMIT limit may return
OrdersByLastAccessedAt(rows, limit) ==
  {[k \in 1..Min(Len(rows), limit) |-> rows[p[k]]] : p \in AscendingOrders(rows)}

\* evictLRU: the candidate query of a table, with any of its results
SelectCandidatesUnordered(t) ==
  /\ tasks[t].pc \in {"docCandidates", "memCandidates"}
  /\ \E found \in IF tasks[t].pc = "docCandidates"
                    THEN OrdersByLastAccessedAt(DocCandidates(documents), EvictLimit)
                    ELSE OrdersByLastAccessedAt(MemCandidates(memories), EvictLimit) :
       LET loop == IF tasks[t].pc = "docCandidates" THEN "evictDocs" ELSE "evictMems"
           selected == [tasks[t] EXCEPT !.pc = loop, !.candidates = found, !.k = 1]
       IN  tasks' = [tasks EXCEPT ![t] = [selected EXCEPT !.pc = NextStatement(selected)]]
  /\ UNCHANGED cacheVars

NoTaskRunning == \A t \in Interleaved : tasks[t].pc \in {"idle", "done"}

TiesSet ==
  /\ NoTaskRunning
  /\ \E t \in Interleaved, content \in InterleavedContents :
       \/ SetCalled(t, "setDocument", "frd", t, content)
       \/ SetCalled(t, "setMemory", "", t, content)
  /\ UNCHANGED <<now, queueVars, connVars, call, enqueued, accepted, sseVars>>

TiesSetStep ==
  /\ \E t \in Interleaved :
       \/ EnsureCacheSizeReads(t)
       \/ SelectCandidatesUnordered(t)
       \/ DeleteCandidate(t)
       \/ InsertRow(t)
  /\ UNCHANGED <<now, queueVars, connVars, call, enqueued, accepted, sseVars>>

NextTies ==
  \/ TiesSet
  \/ TiesSetStep
  \/ ClockTick

SpecTies == InitInterleaved /\ [][NextTies]_vars

(***************************************************************************)
(* SpecCacheFull: a session on the well-filled cache database an earlier   *)
(* session left behind: 2 * EvictLimit documents with empty content and    *)
(* one document that fills the dynamic tier; the session writes and reads  *)
(* non-critical documents.                                                 *)
(***************************************************************************)
PersistedDocuments ==
  [i \in 1..(2 * EvictLimit + 1) |->
     [docType |-> "frd", name |-> i, project |-> "",
      content |-> IF i <= 2 * EvictLimit THEN <<>> ELSE Content(MaxDynamicBytes),
      metadata |-> null,
      cachedAt |-> 0, lastAccessedAt |-> 0, isCritical |-> FALSE,
      sizeBytes |-> IF i <= 2 * EvictLimit THEN 0 ELSE MaxDynamicBytes]]

InitCacheFull ==
  /\ now = 0
  /\ documents = PersistedDocuments
  /\ memories = <<>>
  /\ lastDynamicInsert = 0
  /\ lastEvicted = {}
  /\ InitQueue
  /\ InitConnection
  /\ InitProxy

FullSetDocument ==
  /\ \E name \in Names, content \in Contents : setDocument("frd", name, content, "", undefined)
  /\ UNCHANGED <<now, queueVars, connVars, proxyVars>>

FullGetDocument ==
  /\ \E name \in Names : getDocument("frd", name, "")
  /\ UNCHANGED <<now, queueVars, connVars, proxyVars>>

NextCacheFull ==
  \/ FullSetDocument
  \/ FullGetDocument
  \/ ClockTick

SpecCacheFull == InitCacheFull /\ [][NextCacheFull]_vars

(***************************************************************************)
(* SpecQueue: writes are queued, replay passes are requested by several    *)
(* callers and run one await at a time, upstream accepts or rejects each   *)
(* operation, failed operations are retried or cleared, and the wall clock *)
(* advances or is set back.                                                *)
(***************************************************************************)
InitSpecQueue ==
  /\ now = 0
  /\ documents = <<>>
  /\ memories = <<>>
  /\ lastDynamicInsert = 0
  /\ lastEvicted = {}
  /\ InitQueue
  /\ InitConnection
  /\ InitProxy

QueueWrite ==
  /\ nextId <= MaxQueued
  /\ \E operation \in Operations, payload \in Payloads :
       queueOperation(operation, payload)
  /\ UNCHANGED <<now, cacheVars, connVars, proxyVars, isSyncing, pass, sentLog>>

ReplayCall ==
  /\ \E p \in SyncCallers : SyncStart(p) \/ SyncSkip(p)
  /\ UNCHANGED <<now, cacheVars, connVars, proxyVars>>

ReplayStep ==
  /\ \E p \in SyncCallers :
       \/ SyncSelect(p)
       \/ executeOperation(p)
       \/ MarkCompleted(p)
       \/ MarkFailure(p)
       \/ SyncFinish(p)
  /\ UNCHANGED <<now, cacheVars, connVars, proxyVars>>

RetryFailed ==
  /\ \E id \in 1..MaxQueued : retryOperation(id)
  /\ UNCHANGED <<now, cacheVars, connVars, proxyVars>>

ClearFailed ==
  /\ clearFailed
  /\ UNCHANGED <<now, cacheVars, connVars, proxyVars>>

ClockChange ==
  /\ Tick \/ ClockSetBack
  /\ UNCHANGED <<cacheVars, queueVars, connVars, proxyVars>>

NextQueue ==
  \/ QueueWrite
  \/ ReplayCall
  \/ ReplayStep
  \/ RetryFailed
  \/ ClearFailed
  \/ ClockChange

SpecQueue == InitSpecQueue /\ [][NextQueue]_vars

\* a caller whose call finds no pass running starts one
ReplayStart ==
  /\ \E p \in SyncCallers : SyncStart(p)
  /\ UNCHANGED <<now, cacheVars, connVars, proxyVars>>

\* SpecQueue where replay passes keep being triggered and a running pass
\* takes its next step: every upstream call of a pass settles
SpecQueueFair ==
  /\ SpecQueue
  /\ WF_vars(ReplayStart)
  /\ WF_vars(ReplayStep)

(***************************************************************************)
(* SpecConnection: the supervisor is started and stopped, its timers fire, *)
(* upstream answers or fails each health check, and concurrent callers run *)
(* operations through execute, one await at a time.                        *)
(***************************************************************************)
InitSpecConnection ==
  /\ now = 0
  /\ documents = <<>>
  /\ memories = <<>>
  /\ lastDynamicInsert = 0
  /\ lastEvicted = {}
  /\ InitQueue
  /\ InitConnection
  /\ InitProxy

Start == start /\ UNCHANGED <<now, cacheVars, queueVars, proxyVars>>

Stop == stop /\ UNCHANGED <<now, cacheVars, queueVars, proxyVars>>

TimerFires ==
  /\ HealthCheckTimerFires \/ ReconnectTimerFires
  /\ UNCHANGED <<now, cacheVars, queueVars, proxyVars>>

ProbeResult ==
  /\ \E origin \in ProbeOrigins : ProbeSucceeds(origin) \/ ProbeFails(origin)
  /\ UNCHANGED <<now, cacheVars, queueVars, proxyVars>>

Execute ==
  /\ \E e \in Executors :
       \/ ExecuteCall(e)
       \/ ExecuteDispatch(e)
       \/ ExecuteReturns(e)
       \/ ExecuteThrows(e)
  /\ UNCHANGED <<now, cacheVars, queueVars, proxyVars>>

NextConnection ==
  \/ Start
  \/ Stop
  \/ TimerFires
  \/ ProbeResult
  \/ Execute

SpecConnection == InitSpecConnection /\ [][NextConnection]_vars

\* SpecConnection where an armed timer fires and upstream settles every
\* health check
SpecRecovery ==
  /\ SpecConnection
  /\ WF_vars(TimerFires)
  /\ WF_vars(ProbeResult)

(***************************************************************************)
(* SpecProxy: a client calls the read and write tools while the supervisor *)
(* probes upstream, upstream accepts or rejects every call, each           *)
(* 'connected' event starts syncWriteQueue, and the clock advances.        *)
(***************************************************************************)
InitSpecProxy ==
  /\ now = 0
  /\ documents = <<>>
  /\ memories = <<>>
  /\ lastDynamicInsert = 0
  /\ lastEvicted = {}
  /\ InitQueue
  /\ InitConnection
  /\ InitProxy

ServerStart == start /\ UNCHANGED <<now, cacheVars, queueVars, proxyVars>>

ServerTimerFires ==
  /\ HealthCheckTimerFires \/ ReconnectTimerFires
  /\ UNCHANGED <<now, cacheVars, queueVars, proxyVars>>

ServerProbeFails ==
  /\ \E origin \in ProbeOrigins : ProbeFails(origin)
  /\ UNCHANGED <<now, cacheVars, queueVars, proxyVars>>

ServerProbeSucceeds ==
  /\ \E origin \in ProbeOrigins : ProbeSucceeds(origin)
  /\ OnConnected
  /\ UNCHANGED <<now, cacheVars, syncQueue, nextId, isSyncing, sentLog, proxyVars>>

WriteToolCall ==
  \/ \E c \in Callers, tool \in DocumentWriteTools, args \in DocumentArgs :
       CallWriteTool(c, tool, args)
  \/ \E c \in Callers, tool \in MemoryWriteTools, args \in MemoryArgs :
       CallWriteTool(c, tool, args)

ReadToolCall ==
  \/ \E c \in Callers, tool \in DocumentReadTools, key \in DocumentKeys :
       CallReadTool(c, tool, key)
  \/ \E c \in Callers, key \in MemoryKeys : CallReadTool(c, "get_memory", key)

ToolStep ==
  \E c \in Callers : WriteCheck(c) \/ WriteSettled(c) \/ ReadSettled(c)

ToolExecute ==
  /\ \E c \in Callers :
       /\ call[c].pc = "execute"
       /\ ExecuteDispatch(c) \/ ExecuteReturns(c) \/ ExecuteThrows(c)
  /\ UNCHANGED <<now, cacheVars, queueVars, proxyVars>>

SyncWriteQueue ==
  /\ \E p \in SyncCallers : syncWriteQueue(p)
  /\ UNCHANGED <<now, cacheVars, connVars, proxyVars>>

Replay ==
  /\ \E p \in SyncCallers :
       \/ SyncSelect(p)
       \/ executeOperation(p)
       \/ MarkFailure(p)
       \/ SyncFinish(p)
  /\ UNCHANGED <<now, cacheVars, connVars, proxyVars>>

ReplayAccepted ==
  /\ \E p \in SyncCallers :
       LET item == pass[p].pending[pass[p].i] IN
       /\ MarkCompleted(p)
       /\ accepted' = Append(accepted, [id |-> item.id, operation |-> item.operation,
                                        args |-> JSONparse(item.payload)])
  /\ UNCHANGED <<now, cacheVars, connVars, call, enqueued, sseVars, tasks>>

NextProxy ==
  \/ ServerStart
  \/ ServerTimerFires
  \/ ServerProbeFails
  \/ ServerProbeSucceeds
  \/ WriteToolCall
  \/ ReadToolCall
  \/ ToolStep
  \/ ToolExecute
  \/ SyncWriteQueue
  \/ Replay
  \/ ReplayAccepted

SpecProxy == InitSpecProxy /\ [][NextProxy]_vars

(***************************************************************************)
(* SpecReads: a client calls the read tools while the supervisor probes    *)
(* upstream, upstream answers or fails every fetch, and the clock advances.*)
(***************************************************************************)
ReadStep ==
  \E c \in Callers : ReadSettled(c)

NextReads ==
  \/ ServerStart
  \/ ServerTimerFires
  \/ ServerProbeFails
  \/ ServerProbeSucceeds
  \/ ReadToolCall
  \/ ReadStep
  \/ ToolExecute
  \/ SyncWriteQueue
  \/ ClockTick

SpecReads == InitSpecProxy /\ [][NextReads]_vars

(***************************************************************************)
(* SpecReconnect: a client calls the write tools while the supervisor      *)
(* probes upstream; upstream accepts or rejects the live calls and accepts *)
(* every replayed operation.  The timers fire, handlers and replay tasks   *)
(* run on, and upstream answers a probe again and again.                   *)
(***************************************************************************)
WriteStep ==
  \E c \in Callers : WriteCheck(c) \/ WriteSettled(c)

ReplayRuns ==
  /\ \E p \in SyncCallers :
       \/ SyncSelect(p)
       \/ executeOperation(p)
       \/ SyncFinish(p)
  /\ UNCHANGED <<now, cacheVars, connVars, proxyVars>>

NextReconnect ==
  \/ ServerStart
  \/ ServerTimerFires
  \/ ServerProbeFails
  \/ ServerProbeSucceeds
  \/ WriteToolCall
  \/ WriteStep
  \/ ToolExecute
  \/ SyncWriteQueue
  \/ ReplayRuns
  \/ ReplayAccepted

SpecReconnect ==
  /\ InitSpecProxy
  /\ [][NextReconnect]_vars
  /\ WF_vars(ServerStart)
  /\ WF_vars(ServerTimerFires)
  /\ SF_vars(ServerProbeSucceeds)
  /\ WF_vars(WriteStep)
  /\ WF_vars(ToolExecute)
  /\ WF_vars(SyncWriteQueue)
  /\ WF_vars(ReplayRuns)
  /\ WF_vars(ReplayAccepted)

(***************************************************************************)
(* SpecTools: a client calls the read tools, the write tools and the tools *)
(* of the default branch, one call at a time, while the supervisor probes  *)
(* upstream; upstream answers or fails every call, and the store may throw *)
(* in any of its operations (a throwing operation leaves the store as it   *)
(* was).  What the client writes and what upstream serves differ.  Each    *)
(* 'connected' event starts syncWriteQueue; the replay pass it starts,     *)
(* which touches neither the cache nor a tool call, does not run on here   *)
(* (SpecProxy and SpecReconnect run it).                                   *)
(***************************************************************************)
WrittenContents == {Content(MaxDynamicBytes)}
WrittenDocuments == [docType : {"workflow"}, name : ToolNames, content : WrittenContents]
WrittenMemories == [docType : {""}, name : ToolNames, content : WrittenContents]

\* the client waits for the answer of a call before it makes the next one
NoCallRunning == \A c \in Callers : call[c].pc = "idle"

ToolsWriteCall ==
  /\ NoCallRunning
  /\ \/ \E c \in Callers, tool \in DocumentWriteTools, args \in WrittenDocuments :
          CallWriteTool(c, tool, args)
     \/ \E c \in Callers, tool \in MemoryWriteTools, args \in WrittenMemories :
          CallWriteTool(c, tool, args)

ToolsReadCall == NoCallRunning /\ ReadToolCall

GenericToolCall ==
  /\ NoCallRunning
  /\ \E c \in Callers, tool \in GenericTools : CallGenericTool(c, tool)

LookupThrown ==
  /\ NoCallRunning
  /\ \/ \E c \in Callers, tool \in DocumentReadTools, key \in DocumentKeys :
          LookupThrows(c, tool, key)
     \/ \E c \in Callers, key \in MemoryKeys : LookupThrows(c, "get_memory", key)

CacheWriteThrown ==
  /\ NoCallRunning
  /\ \/ \E c \in Callers, tool \in DocumentWriteTools, args \in WrittenDocuments :
          CacheWriteThrows(c, tool, args)
     \/ \E c \in Callers, tool \in MemoryWriteTools, args \in WrittenMemories :
          CacheWriteThrows(c, tool, args)

StoreThrows ==
  \/ LookupThrown
  \/ CacheWriteThrown
  \/ \E c \in Callers : QueueThrows(c)
  \/ \E c \in Callers : FetchedWriteThrows(c)

ToolsStep ==
  \E c \in Callers :
    WriteCheck(c) \/ WriteSettled(c) \/ ReadSettled(c) \/ GenericSettled(c)

NextTools ==
  \/ ServerStart
  \/ ServerTimerFires
  \/ ServerProbeFails
  \/ ServerProbeSucceeds
  \/ ToolsWriteCall
  \/ ToolsReadCall
  \/ GenericToolCall
  \/ StoreThrows
  \/ ToolsStep
  \/ ToolExecute
  \/ SyncWriteQueue

SpecTools == InitSpecProxy /\ [][NextTools]_vars

\* a probe of SpecToolsFair succeeds; the pass that the 'connected' listener
\* starts is left to SpecTools
ToolsProbeSucceeds ==
  /\ \E origin \in ProbeOrigins : ProbeSucceeds(origin)
  /\ UNCHANGED <<now, cacheVars, queueVars, proxyVars>>

NextToolsFair ==
  \/ ServerStart
  \/ ServerTimerFires
  \/ ServerProbeFails
  \/ ToolsProbeSucceeds
  \/ ToolsWriteCall
  \/ ToolsReadCall
  \/ GenericToolCall
  \/ StoreThrows
  \/ ToolsStep
  \/ ToolExecute

\* The tool calls and the supervisor of SpecTools, where a handler that can
\* take its next step takes it and every upstream call settles.  No handler
\* of a tool call reads pass or isSyncing, the only variables syncWriteQueue
\* changes in SpecTools, so every behaviour of SpecTools is one of
\* SpecToolsFair once these two variables are hidden.
SpecToolsFair ==
  /\ InitSpecProxy
  /\ [][NextToolsFair]_vars
  /\ WF_vars(ToolsStep)
  /\ WF_vars(ToolExecute)

(***************************************************************************)
(* SpecLookups: a client calls the read tools and the tools of the default *)
(* branch, one call at a time, while the supervisor probes upstream;       *)
(* upstream answers or fails every call, and the store may throw.          *)
(***************************************************************************)
LookupStored ==
  \/ LookupThrown
  \/ \E c \in Callers : FetchedWriteThrows(c)

LookupStep ==
  \E c \in Callers : ReadSettled(c) \/ GenericSettled(c)

NextLookups ==
  \/ ServerStart
  \/ ServerTimerFires
  \/ ServerProbeFails
  \/ ServerProbeSucceeds
  \/ ToolsReadCall
  \/ GenericToolCall
  \/ LookupStored
  \/ LookupStep
  \/ ToolExecute
  \/ SyncWriteQueue

SpecLookups == InitSpecProxy /\ [][NextLookups]_vars

(***************************************************************************)
(* SpecDeletes: a client calls the delete tools, one call at a time, while *)
(* the supervisor probes upstream and upstream answers or fails every call. *)
(***************************************************************************)
DeleteToolCall ==
  /\ NoCallRunning
  /\ \E c \in Callers, tool \in DeleteTools : CallGenericTool(c, tool)

DeleteStep == \E c \in Callers : GenericSettled(c)

NextDeletes ==
  \/ ServerStart
  \/ ServerTimerFires
  \/ ServerProbeFails
  \/ ServerProbeSucceeds
  \/ DeleteToolCall
  \/ DeleteStep
  \/ ToolExecute
  \/ SyncWriteQueue

SpecDeletes == InitSpecProxy /\ [][NextDeletes]_vars

(***************************************************************************)
(* SpecOrder: a client calls create_document for one document again and    *)
(* again, one call at a time and with different contents, while the        *)
(* supervisor probes upstream; upstream accepts or rejects every call,     *)
(* live or replayed, and each 'connected' event starts syncWriteQueue.     *)
(* accepted keeps what upstream has accepted, in the order it received it: *)
(* replayed operations under their row id, live calls under id 0.          *)
(***************************************************************************)
OrderedArgs ==
  [docType : {"workflow"}, name : ToolNames, content : {Content(1), Content(2)}]

LiveAccepted == {i \in 1..Len(accepted) : accepted[i].id = 0}

\* the writes made so far: those upstream took live and those queued
WritesMade == Cardinality(LiveAccepted) + (nextId - 1)

\* handleCreateDocument, up to the connection test: the cache write
OrderedWriteCall ==
  /\ NoCallRunning
  /\ WritesMade < MaxQueued
  /\ \E c \in Callers, args \in OrderedArgs :
       /\ setDocument(args.docType, args.name, args.content, "", undefined)
       /\ call' = [call EXCEPT ![c] = [IdleCall EXCEPT !.pc = "check",
                                                       !.handler = "handleCreateDocument",
                                                       !.args = args]]
  /\ UNCHANGED <<now, queueVars, connVars, enqueued, accepted, sseVars, tasks>>

\* execute of a live call, up to the answer of upstream
OrderedExecute ==
  /\ \E c \in Callers :
       /\ call[c].pc = "execute"
       /\ ExecuteDispatch(c) \/ ExecuteThrows(c)
  /\ UNCHANGED <<now, cacheVars, queueVars, proxyVars>>

\* upstream accepted the createDocument of a live call
LiveWriteAccepted ==
  /\ \E c \in Callers :
       /\ call[c].pc = "execute"
       /\ ExecuteReturns(c)
       /\ accepted' = Append(accepted, [id |-> 0,
                                        operation |-> QueuedAs(call[c].handler),
                                        args |-> call[c].args])
  /\ UNCHANGED <<now, cacheVars, queueVars, call, enqueued, sseVars, tasks>>

NextOrder ==
  \/ ServerStart
  \/ ServerTimerFires
  \/ ServerProbeFails
  \/ ServerProbeSucceeds
  \/ OrderedWriteCall
  \/ WriteStep
  \/ OrderedExecute
  \/ LiveWriteAccepted
  \/ SyncWriteQueue
  \/ Replay
  \/ ReplayAccepted

SpecOrder == InitSpecProxy /\ [][NextOrder]_vars

(***************************************************************************)
(* SpecFetch: a client calls the read tools while the supervisor probes    *)
(* upstream and the listener's stream is open; upstream answers or fails   *)
(* every fetch and pushes invalidation events for the documents the client *)
(* reads.  The answer to a fetch and a pushed event travel on different    *)
(* connections: an event upstream pushed after it answered may be handled  *)
(* before the handler of the fetch runs on.  tasks keeps the events        *)
(* handled since upstream last answered a fetch.                           *)
(***************************************************************************)
\* the data of a document:invalidate event for a document of the read tools
PushedData(key) ==
  [parses |-> TRUE, isArray |-> FALSE,
   value |-> <<[type |-> "document", docType |-> key.docType, name |-> key.name,
                project |-> undefined]>>]

\* upstream answered the fetch of a read handler
FetchAnswered ==
  /\ \E c \in Callers :
       /\ call[c].pc = "execute"
       /\ call[c].handler \in ReadHandlers
       /\ ExecuteReturns(c)
  /\ tasks' = [t \in CacheCallers |-> IdleTask]
  /\ UNCHANGED <<now, cacheVars, queueVars, call, enqueued, accepted, sseVars>>

\* a document:invalidate event arrives on the open stream and is handled
PushInvalidation ==
  /\ eventSource = "open"
  /\ \E t \in CacheCallers, key \in DocumentKeys :
       /\ FreeCaller(t)
       /\ handleInvalidationEvent(t, PushedData(key))
  /\ UNCHANGED <<now, queueVars, connVars, call, enqueued, accepted, sseVars>>

NextFetch ==
  \/ ServerStart
  \/ ServerTimerFires
  \/ ServerProbeFails
  \/ ServerProbeSucceeds
  \/ SseStream
  \/ ReadToolCall
  \/ OrderedExecute
  \/ FetchAnswered
  \/ PushInvalidation
  \/ ReadStep
  \/ SyncWriteQueue

SpecFetch == InitSpecProxy /\ [][NextFetch]_vars

(***************************************************************************)
(* Claims about CacheManager                                               *)
(***************************************************************************)
DocRows == {documents[i] : i \in 1..Len(documents)}
MemRows == {memories[i] : i \in 1..Len(memories)}

dynamicBytes == getDynamicCacheSize(documents, memories)

criticalBytes == SumSize(SelectSeq(documents, LAMBDA r : r.isCritical))

\* C1: after any sequence of CacheManager calls made one at a time, the
\* bytes of the non-critical documents plus all memories are at most
\* maxDynamicBytes, except for the excess left by the latest non-critical
\* row R written, which is at most |R|: dynamicBytes <= maxDynamicBytes + |R|.
C1_DynamicBudget ==
  dynamicBytes <= maxDynamicCacheSize + lastDynamicInsert

\* C2: no call other than invalidateDocument of its own key removes a
\* critical row: a critical row present before a setDocument, setMemory,
\* getDocument, getMemory or other invalidation is present afterwards.
CriticalKept(r) ==
  \E q \in DocRows' : DocKey(q) = DocKey(r) /\ q.isCritical

C2_CriticalNeverEvicted ==
  [][\A r \in DocRows :
       r.isCritical =>
         \/ CriticalKept(r)
         \/ invalidateDocument(r.docType, r.name, r.project)]_vars

\* C2 witness: an insert has just evicted a non-critical row while the
\* critical rows, larger in total than maxDynamicBytes, are all in place.
C2_Witness ==
  /\ lastEvicted # {}
  /\ criticalBytes > maxDynamicCacheSize
  /\ Cardinality({r \in DocRows : r.isCritical}) = Cardinality(Names)

(***************************************************************************)
(* Claims about WriteQueueManager                                          *)
(***************************************************************************)
Row(id) == CHOOSE r \in QueueRows : r.id = id
HasRow(id) == \E r \in QueueRows : r.id = id
RunningPasses == {p \in SyncCallers : ~AtCall(p)}

\* C3: replay preserves the enqueue order: of two rows pending when a pass
\* starts, the one enqueued first (the smaller id) is handed to upstream
\* first, whatever the createdAt values of the two rows.
C3_ReplayInEnqueueOrder ==
  \A i, j \in 1..Len(sentLog) : i < j => sentLog[i] < sentLog[j]

\* C4: every row has 0 <= attempts <= maxAttempts, a row has attempts =
\* maxAttempts exactly when its status is failed (so no row is pending after
\* maxAttempts failed attempts), and each failed upstream attempt adds
\* exactly 1 to the attempts of the row it was made for, which stays pending
\* while the sum is below maxAttempts.
AttemptsBounded ==
  \A r \in QueueRows :
    /\ 0 <= r.attempts /\ r.attempts <= maxAttempts
    /\ r.attempts = maxAttempts <=> r.status = "failed"

FailedAttemptCounted ==
  \A p \in SyncCallers :
    (pass[p].pc = "await" /\ pass'[p].pc = "loop" /\ pass'[p].synced = pass[p].synced) =>
      LET id == pass[p].pending[pass[p].i].id IN
      /\ HasRow(id)
      /\ \E r \in QueueRows' :
           /\ r.id = id
           /\ r.attempts = Row(id).attempts + 1
           /\ r.status = IF r.attempts < maxAttempts THEN "pending" ELSE "failed"

C4_BoundedRetry == []AttemptsBounded /\ [][FailedAttemptCounted]_vars

\* C4 witness: a row has reached maxAttempts failed attempts and is failed,
\* while another one that failed once is still pending.
C4_Witness ==
  /\ \E r \in QueueRows : r.attempts = maxAttempts /\ r.status = "failed"
  /\ \E r \in QueueRows : r.attempts = 1 /\ r.status = "pending"

\* C5: at most one replay pass runs at a time: a call of
\* syncPendingOperations made while a pass is running returns
\* {synced: 0, failed: 0} without handing anything to upstream and without
\* changing a row, and no row is handed to upstream twice in one pass.
OnePassAtATime ==
  /\ Cardinality(RunningPasses) <= 1
  /\ \A i, j \in 1..Len(sentLog) : i # j => sentLog[i] # sentLog[j]

CallWhileSyncingReturnsZeros ==
  \A p \in SyncCallers :
    (isSyncing /\ AtCall(p) /\ pass'[p] # pass[p] /\ pass'[p].pc # "count") =>
      /\ pass'[p] = [IdlePass EXCEPT !.pc = "skipped"]
      /\ sentLog' = sentLog
      /\ syncQueue' = syncQueue

C5_SingleReplayPass == []OnePassAtATime /\ [][CallWhileSyncingReturnsZeros]_vars

\* C5 witness: a second caller has been turned away while the first
\* caller's pass, with two rows in its snapshot, waits for upstream.
C5_Witness ==
  /\ pass[1].pc = "await" /\ Len(pass[1].pending) = 2
  /\ pass[2] = [IdlePass EXCEPT !.pc = "skipped"]

(***************************************************************************)
(* Claims about ConnectionManager                                          *)
(***************************************************************************)
\* C9: execute invokes its operation only in state connected, under every
\* interleaving with probe results and with failures of other execute calls;
\* in any other state it throws 'unavailable' without invoking the operation
\* and without changing the state, the attempt counter or a timer.
DispatchedWhileConnected ==
  \A e \in Executors : exec[e].pc = "running" => exec[e].invokedIn = "connected"

UnavailableChangesNothing ==
  \A e \in Executors :
    (exec[e].pc = "lock" /\ exec'[e].pc # "lock" /\ state # "connected") =>
      /\ exec'[e] = [IdleExec EXCEPT !.result = "unavailable"]
      /\ UNCHANGED <<state, reconnectAttempts, reconnectTimer, healthCheckTimer>>

C9_ExecuteOnlyConnected ==
  []DispatchedWhileConnected /\ [][UnavailableChangesNothing]_vars

\* C9 witness: one call is still running its operation, dispatched while
\* connected, after the failure of another call has started a reconnect, and
\* a call made since then was refused.
C9_Witness ==
  /\ exec[1].pc = "running"
  /\ state = "reconnecting"
  /\ exec[2].result = "unavailable"

\* C10: once maxReconnectAttempts probes have failed in a row, with no
\* successful probe in between, the supervisor is offline and has emitted
\* maxReconnectAttemptsReached exactly once in that run.
C10_OfflineAfterMaxFailures ==
  (started /\ ~isStopped /\ failures >= maxReconnectAttempts) =>
    (state = "offline" /\ maxReached = 1)

(***************************************************************************)
(* Claims about ProxyServer                                                *)
(***************************************************************************)
WriteCallDone(c) == call[c].pc = "idle" /\ call[c].handler \in WriteHandlers

\* outcome (a): upstream took the write, nothing was queued, live envelope
OutcomeLive(c) ==
  /\ call[c].live
  /\ call[c].rowsQueued = 0
  /\ call[c].envelope.data = "success"
  /\ ~call[c].envelope.queued
  /\ call[c].envelope.source = "live"

\* outcome (b): upstream did not take the write, one row with the call's
\* arguments was queued, queued envelope with the warning
OutcomeQueued(c) ==
  /\ ~call[c].live
  /\ call[c].rowsQueued = 1
  /\ enqueued[call[c].queuedId] =
       [operation |-> QueuedAs(call[c].handler), args |-> call[c].args]
  /\ HasRow(call[c].queuedId) =>
       /\ Row(call[c].queuedId).operation = QueuedAs(call[c].handler)
       /\ JSONparse(Row(call[c].queuedId).payload) = call[c].args
  /\ call[c].envelope.data = "success"
  /\ call[c].envelope.queued
  /\ call[c].envelope.warning
  /\ call[c].envelope.source = "cache"

\* C6: every finished write tool call has exactly one of the two outcomes:
\* (a) the upstream mutation succeeded, no row was queued and the envelope
\* is {success: true} with source live, or (b) the state was not connected
\* or the upstream mutation failed, exactly one pending row with the call's
\* arguments was queued and the envelope is {success: true, queued: true}
\* with source cache and the warning.
QueuedRowIsPending ==
  \A c \in Callers :
    call'[c].rowsQueued = call[c].rowsQueued + 1 =>
      /\ Len(syncQueue') = Len(syncQueue) + 1
      /\ syncQueue'[Len(syncQueue')].status = "pending"
      /\ syncQueue'[Len(syncQueue')].id = call'[c].queuedId
      /\ exec[c].result # "value" \/ state # "connected"

ReadCallMade(c) ==
  /\ call[c].pc = "idle"
  /\ call'[c] # call[c]
  /\ call'[c].handler \in ReadHandlers

C8_CachedRowServed ==
  [][\A c \in Callers :
       (ReadCallMade(c) /\ CachedRows(call'[c].handler, call'[c].args) # {}) =>
         /\ call'[c].pc = "idle"
         /\ \E row \in CachedRows(call'[c].handler, call'[c].args) :
              call'[c].envelope = [data |-> row.content, age |-> now - row.cachedAt,
                                   source |-> "cache", status |-> state]
         /\ exec' = exec
         /\ sentLog' = sentLog]_vars

\* C8 witness: a row cached one second earlier has been served from the
\* cache while the supervisor is offline.
C8_Witness ==
  /\ call[1].pc = "idle"
  /\ call[1].handler \in ReadHandlers
  /\ call[1].envelope.source = "cache"
  /\ call[1].envelope.status = "offline"
  /\ "age" \in DOMAIN call[1].envelope
  /\ call[1].envelope.age = 1

Pending(id) == HasRow(id) /\ Row(id).status = "pending"
Accepted(id) == \E k \in 1..Len(accepted) : accepted[k].id = id

\* C7: a write tool call made while the supervisor is not connected raises
\* pendingCount by 1; once the supervisor is connected again and upstream
\* accepts the operation, it is sent to upstream exactly once, with the
\* arguments of the call, its row is removed and pendingCount is 0 again.
OfflineWriteCounted ==
  \A c \in Callers :
    (call'[c].rowsQueued = call[c].rowsQueued + 1) =>
      /\ getPendingCount' = getPendingCount + 1
      /\ \E r \in QueueRows' : r.id = call'[c].queuedId /\ r.status = "pending"

ConnectedStartsSync ==
  (state' = "connected" /\ \E origin \in ProbeOrigins : probes'[origin] < probes[origin]) =>
    \E p \in SyncCallers : AtRest(p) /\ pass'[p].pc = "count"

SentOnceAsQueued ==
  /\ \A j, k \in 1..Len(accepted) : j # k => accepted[j].id # accepted[k].id
  /\ \A k \in 1..Len(accepted) :
       /\ accepted[k].operation = enqueued[accepted[k].id].operation
       /\ accepted[k].args = enqueued[accepted[k].id].args
       /\ ~Pending(accepted[k].id)
       /\ NoPassRunning => ~HasRow(accepted[k].id)
  /\ (NoPassRunning /\ \A id \in 1..Len(enqueued) : Accepted(id)) =>
       getPendingCount = 0

C7_OfflineWriteReplayed ==
  /\ []SentOnceAsQueued
  /\ [][OfflineWriteCounted /\ ConnectedStartsSync]_vars
  /\ \A id \in 1..MaxToolWrites :
       Pending(id) ~> (Accepted(id) /\ ~HasRow(id) /\ getPendingCount = 0)

\* C7 witness: the write was queued while the supervisor was not connected,
\* and after the reconnection its replay was accepted on the first attempt,
\* the row is gone and pendingCount is 0.
C7_Witness ==
  /\ WriteCallDone(1)
  /\ OutcomeQueued(1)
  /\ call[1].envelope.status # "connected"
  /\ Accepted(call[1].queuedId)
  /\ ~HasRow(call[1].queuedId)
  /\ getPendingCount = 0
  /\ state = "connected"

(***************************************************************************)
(* Claims about the LRU order of CacheManager                              *)
(***************************************************************************)
\* the rows the step has evicted, as they were before the step
EvictedByStep ==
  {r \in DocRows : DocKey(r) \in lastEvicted'} \cup
  {r \in MemRows : MemKey(r) \in lastEvicted'}

\* the non-critical rows present after the step
DynamicRowsAfter == {r \in DocRows' : ~r.isCritical} \cup MemRows'

\* C11: documents and memories share one LRU order: after an insert of a
\* non-critical row that has evicted rows, every non-critical document and
\* every memory still present has lastAccessedAt >= the lastAccessedAt of
\* every row the insert has evicted.
C11_SharedLRUOrder ==
  [][\A e \in EvictedByStep : \A r \in DynamicRowsAfter :
       r.lastAccessedAt >= e.lastAccessedAt]_vars

\* C12: the LRU order follows access: a getDocument hit on a non-critical
\* document makes it more recent than every other non-critical document, so
\* that it comes last in the order in which evictLRU deletes documents
\* (insert D1, D2, D3; read D1; insert D4 that evicts one row: D2 goes,
\* D1 stays).
HitComesLast(i) ==
  \A j \in 1..Len(documents') :
    (j # i /\ ~documents'[j].isCritical) => Before(documents', j, i)

C12_LRUFollowsAccess ==
  [][\A docType \in DocTypes, name \in Names, project \in Projects :
       LET hit == FindDoc(documents, <<docType, name, project>>)
       IN  (/\ hit # {}
            /\ docType \notin CRITICAL_DOC_TYPES
            /\ getDocument(docType, name, project)
            /\ UNCHANGED now) =>
             HitComesLast(CHOOSE i \in hit : TRUE)]_vars

(***************************************************************************)
(* Claims about the keys of CacheManager                                   *)
(***************************************************************************)
\* the project a caller means: none given is the global project ""
GivenProject(project) == IF project = undefined THEN "" ELSE project

\* the rows of a key in the state after the step
DocsAfter(key) == {r \in DocRows' : DocKey(r) = key}
MemsAfter(key) == {r \in MemRows' : MemKey(r) = key}

\* the step is the call of this method by caller c
CacheStep(c, method) ==
  /\ now' = now
  /\ call'[c].pc = "returned"
  /\ call'[c].handler = method

\* C13: invalidation is idempotent and key-exact: after
\* invalidateDocument(K) or invalidateMemory(K) a get of K returns none,
\* whether K was cached or not (invalidating an absent key changes nothing
\* and is no error), and every row of another key - the same name under
\* another project or document type included - is as it was.
InvalidateDocumentExact ==
  \A c \in Callers :
    CacheStep(c, "invalidateDocument") =>
      LET args == call'[c].args
          key == <<args[1], args[2], GivenProject(args[3])>>
      IN  /\ DocsAfter(key) = {}
          /\ \A r \in DocRows : DocKey(r) # key => r \in DocRows'
          /\ DocRows' \subseteq DocRows
          /\ memories' = memories
          /\ (FindDoc(documents, key) = {} => documents' = documents)

InvalidateMemoryExact ==
  \A c \in Callers :
    CacheStep(c, "invalidateMemory") =>
      LET args == call'[c].args
          key == <<args[1], GivenProject(args[2])>>
      IN  /\ MemsAfter(key) = {}
          /\ \A r \in MemRows : MemKey(r) # key => r \in MemRows'
          /\ MemRows' \subseteq MemRows
          /\ documents' = documents
          /\ (FindMem(memories, key) = {} => memories' = memories)

GetAfterInvalidateIsNone ==
  \A c \in Callers :
    /\ (/\ call[c].handler = "invalidateDocument"
        /\ CacheStep(c, "getDocument")
        /\ call'[c].args = call[c].args) => call'[c].envelope = {}
    /\ (/\ call[c].handler = "invalidateMemory"
        /\ CacheStep(c, "getMemory")
        /\ call'[c].args = call[c].args) => call'[c].envelope = {}

C13_InvalidationKeyExact ==
  [][/\ InvalidateDocumentExact
     /\ InvalidateMemoryExact
     /\ GetAfterInvalidateIsNone]_vars

\* C13 witness: the document of the named project has just been
\* invalidated while the document of the same type and name in the global
\* project is cached.
C13_Witness ==
  /\ call[1].handler = "invalidateDocument"
  /\ call[1].args = <<"frd", 1, "p">>
  /\ \E r \in DocRows : DocKey(r) = <<"frd", 1, "">>

\* the metadata a caller gets back: {} when none was given
GivenMetadata(metadata) == IF metadata = undefined THEN EmptyObject ELSE metadata

OneRowPerKey ==
  /\ \A i, j \in 1..Len(documents) :
       i # j => DocKey(documents[i]) # DocKey(documents[j])
  /\ \A i, j \in 1..Len(memories) :
       i # j => MemKey(memories[i]) # MemKey(memories[j])

\* the get returns one item, with the content and metadata written and a
\* non-negative age
RoundTrip(items, content, metadata) ==
  /\ Cardinality(items) = 1
  /\ \A item \in items :
       /\ item.content = content
       /\ item.metadata = GivenMetadata(metadata)
       /\ item.age >= 0

GetDocumentAfterSet ==
  \A c \in Callers :
    (/\ call[c].handler = "setDocument"
     /\ CacheStep(c, "getDocument")
     /\ call'[c].args[1] = call[c].args[1]
     /\ call'[c].args[2] = call[c].args[2]
     /\ GivenProject(call'[c].args[3]) = GivenProject(call[c].args[4])) =>
       RoundTrip(call'[c].envelope, call[c].args[3], call[c].args[5])

GetMemoryAfterSet ==
  \A c \in Callers :
    (/\ call[c].handler = "setMemory"
     /\ CacheStep(c, "getMemory")
     /\ call'[c].args[1] = call[c].args[1]
     /\ GivenProject(call'[c].args[2]) = GivenProject(call[c].args[3])) =>
       RoundTrip(call'[c].envelope, call[c].args[2], call[c].args[4])

\* a set writes the row of its key and leaves the rows of the other keys
\* alone, unless it evicts them
SetWritesItsKey ==
  \A c \in Callers :
    /\ CacheStep(c, "setDocument") =>
         LET args == call'[c].args
             key == <<args[1], args[2], GivenProject(args[4])>>
         IN  /\ \E r \in DocsAfter(key) : r.content = args[3]
             /\ \A r \in DocRows :
                  DocKey(r) # key => (r \in DocRows' \/ DocKey(r) \in lastEvicted')
    /\ CacheStep(c, "setMemory") =>
         LET args == call'[c].args
             key == <<args[1], GivenProject(args[3])>>
         IN  /\ \E r \in MemsAfter(key) : r.content = args[2]
             /\ \A r \in MemRows :
                  MemKey(r) # key => (r \in MemRows' \/ MemKey(r) \in lastEvicted')

OnlyTouched(rows, rowsAfter, i) ==
  /\ Len(rowsAfter) = Len(rows)
  /\ \A j \in 1..Len(rows) : j # i => rowsAfter[j] = rows[j]
  /\ rowsAfter[i] = [rows[i] EXCEPT !.lastAccessedAt = now]
  /\ rowsAfter[i].content = rows[i].content
  /\ rowsAfter[i].metadata = rows[i].metadata
  /\ rowsAfter[i].cachedAt = rows[i].cachedAt
  /\ rowsAfter[i].sizeBytes = rows[i].sizeBytes
  /\ rowsAfter[i].lastAccessedAt >= rows[i].lastAccessedAt

GetDocumentTouches ==
  \A c \in Callers :
    CacheStep(c, "getDocument") =>
      LET args == call'[c].args
          hit == FindDoc(documents, <<args[1], args[2], GivenProject(args[3])>>)
      IN  /\ memories' = memories
          /\ (call'[c].envelope = {}) = (hit = {})
          /\ hit = {} => documents' = documents
          /\ \A i \in hit :
               /\ OnlyTouched(documents, documents', i)
               /\ documents'[i].isCritical = documents[i].isCritical

GetMemoryTouches ==
  \A c \in Callers :
    CacheStep(c, "getMemory") =>
      LET args == call'[c].args
          hit == FindMem(memories, <<args[1], GivenProject(args[2])>>)
      IN  /\ documents' = documents
          /\ (call'[c].envelope = {}) = (hit = {})
          /\ hit = {} => memories' = memories
          /\ \A i \in hit : OnlyTouched(memories, memories', i)

ReadHandlerOf(handler) ==
  IF handler = "handleCreateDocument" THEN "handleGetDocument" ELSE "handleGetMemory"

HasField(envelope, field) == field \in DOMAIN envelope

\* the write handler of caller c is past its cache write
WriteUnderWay(c) ==
  /\ call[c].handler \in WriteHandlers
  /\ call[c].pc \in {"check", "execute"}

\* the latest call of caller c was a write that returned success
WriteReturned(c) ==
  /\ call[c].handler \in WriteHandlers
  /\ call[c].pc = "idle"
  /\ HasField(call[c].envelope, "data")

\* the step is a read call of caller c for the key of its latest call, in
\* which the store does not throw
ReadsSameKey(c) ==
  /\ call[c].pc = "idle"
  /\ call'[c].handler = ReadHandlerOf(call[c].handler)
  /\ call'[c].args.name = call[c].args.name
  /\ call'[c].args.docType = call[c].args.docType
  /\ ~(HasField(call'[c].envelope, "error") /\ call'[c].envelope.error = "TOOL_ERROR")

\* C16: writes are applied locally first: a create_document,
\* update_document, set_memory or update_memory call has written its row
\* into the cache before it tests the connection or calls upstream, in every
\* connection state, and a read tool call for the same key made right after
\* the write returns the written content with source = cache.
CachedBeforeUpstream ==
  \A c \in Callers :
    WriteUnderWay(c) =>
      \E r \in CachedRows(ReadHandlerOf(call[c].handler), call[c].args) :
        r.content = call[c].args.content

ReadAfterWriteIsCached ==
  \A c \in Callers :
    (WriteReturned(c) /\ ReadsSameKey(c)) =>
      /\ call'[c].pc = "idle"
      /\ call'[c].envelope.source = "cache"
      /\ call'[c].envelope.data = call[c].args.content
      /\ exec'[c] = exec[c]

C16_WritesLocalFirst == []CachedBeforeUpstream /\ [][ReadAfterWriteIsCached]_vars

\* C16 witness: while the supervisor is offline, a read has returned from
\* the cache the content of a write that was queued.
C16_Witness ==
  /\ call[1].handler = "handleGetMemory"
  /\ call[1].pc = "idle"
  /\ HasField(call[1].envelope, "data")
  /\ call[1].envelope.source = "cache"
  /\ call[1].envelope.data \in WrittenContents
  /\ call[1].envelope.status = "offline"
  /\ Len(enqueued) > 0

\* caller c has made a call and the CallTool handler is not running
HasReturned(c) == call[c].pc = "idle" /\ call[c].handler # "none"

\* content or an error code, and _metadata with source and status
WellFormed(envelope) ==
  /\ HasField(envelope, "data") \/ HasField(envelope, "error")
  /\ HasField(envelope, "source")
  /\ HasField(envelope, "status")
  /\ envelope.source \in {"cache", "live"}
  /\ envelope.status \in ConnectionStates

\* C17: every tool call (cacheable read, write or pass-through, in every
\* connection state, and whether the store or the upstream call throws)
\* terminates with a well-formed envelope whose _metadata.status is present
\* and equals the supervisor's state at the time the envelope is built; no
\* exception escapes the call handler.
EnvelopesWellFormed ==
  \A c \in Callers : HasReturned(c) => WellFormed(call[c].envelope)

StatusIsStateAtBuild ==
  \A c \in Callers :
    (call'[c] # call[c] /\ call'[c].pc = "idle") =>
      /\ WellFormed(call'[c].envelope)
      /\ call'[c].envelope.status = state
      /\ state' = state

C17_EveryCallReturnsEnvelope ==
  /\ []EnvelopesWellFormed
  /\ [][StatusIsStateAtBuild]_vars
  /\ \A c \in Callers : (call[c].pc # "idle") ~> HasReturned(c)

\* C17 witness: the store threw in queueOperation after upstream failed a
\* write, and the call returned the TOOL_ERROR envelope with the state the
\* supervisor was left in.
C17_Witness ==
  /\ HasReturned(1)
  /\ call[1].handler \in WriteHandlers
  /\ exec[1].result = "error"
  /\ HasField(call[1].envelope, "error")
  /\ call[1].envelope.error = "TOOL_ERROR"
  /\ call[1].envelope.status = "reconnecting"

\* the step is a call by caller c of a tool of the default branch
GenericCallBy(c) ==
  /\ call[c].pc = "idle"
  /\ call'[c] # call[c]
  /\ call'[c].handler \in {"default", "handleGenericTool"}

\* C18: pass-through offline: a call of a tool that is neither a cacheable
\* read nor a write tool (e.g. search_codebase), made while the supervisor
\* state is not connected, returns an error envelope with error.code =
\* OFFLINE and _metadata.status equal to the current state, and upstream is
\* never invoked for that call.
OfflineAnswer ==
  \A c \in Callers :
    (GenericCallBy(c) /\ state # "connected") =>
      /\ call'[c].pc = "idle"
      /\ HasField(call'[c].envelope, "error")
      /\ call'[c].envelope.error = "OFFLINE"
      /\ call'[c].envelope.status = state
      /\ state' = state
      /\ exec' = exec

\* a call answered with OFFLINE never has an upstream call behind it
OfflineNeverInvoked ==
  \A c \in Callers :
    (HasReturned(c) /\ HasField(call[c].envelope, "error")
       /\ call[c].envelope.error = "OFFLINE") =>
      /\ call[c].handler = "default"
      /\ exec[c].pc = "idle"
      /\ call[c].envelope.status # "connected"

C18_PassThroughOffline == []OfflineNeverInvoked /\ [][OfflineAnswer]_vars

\* C18 witness: search_codebase was called while the supervisor was
\* reconnecting and was answered with the OFFLINE envelope.
C18_Witness ==
  /\ HasReturned(1)
  /\ call[1].handler = "default"
  /\ call[1].args = "search_codebase"
  /\ call[1].envelope = [error |-> "OFFLINE", source |-> "cache", status |-> "reconnecting"]
  /\ state = "reconnecting"

\* the rows of the key after the step
CachedRowsAfter(handler, key) ==
  IF handler = "handleGetDocument"
    THEN {documents'[i] : i \in FindDoc(documents', <<key.docType, key.name, "">>)}
    ELSE {memories'[i] : i \in FindMem(memories', <<key.name, "">>)}

\* the step is the return of the read handler of caller c after an upstream
\* fetch that succeeded
FetchReturned(c) ==
  /\ call[c].handler \in ReadHandlers
  /\ call[c].pc = "execute"
  /\ call'[c].pc = "idle"
  /\ exec[c].result = "value"

\* the latest call of caller c was a read answered from upstream, and the
\* step is a read call of caller c for the same key
ReadAgain(c) ==
  /\ call[c].handler \in ReadHandlers
  /\ call[c].pc = "idle"
  /\ call[c].envelope.source = "live"
  /\ call'[c] # call[c]
  /\ call'[c].handler = call[c].handler
  /\ call'[c].args = call[c].args

\* C19: read miss while connected: when the key is absent from the cache,
\* the state is connected and the upstream fetch succeeds, the read tool
\* stores the fetched content in the cache and returns it with source =
\* live; an immediately following read of the same key is a cache hit
\* (source = cache) that does not invoke upstream again.
FetchedIsStoredAndLive ==
  \A c \in Callers :
    FetchReturned(c) =>
      /\ HasField(call'[c].envelope, "data")
      /\ call'[c].envelope.source = "live"
      /\ \E r \in CachedRowsAfter(call[c].handler, call[c].args) :
           r.content = call'[c].envelope.data

NextReadIsHit ==
  \A c \in Callers :
    ReadAgain(c) =>
      /\ call'[c].pc = "idle"
      /\ HasField(call'[c].envelope, "data")
      /\ call'[c].envelope.source = "cache"
      /\ call'[c].envelope.data = call[c].envelope.data
      /\ exec' = exec

\* a fetch is only ever started on a miss in the connected state
FetchOnlyOnConnectedMiss ==
  \A c \in Callers :
    (call[c].pc = "idle" /\ call'[c].pc = "execute") =>
      /\ state = "connected"
      /\ CachedRows(call'[c].handler, call'[c].args) = {}

ReadMisses(c) ==
  /\ call[c].pc = "idle"
  /\ call'[c] # call[c]
  /\ call'[c].handler \in ReadHandlers
  /\ CachedRows(call'[c].handler, call'[c].args) = {}

\* the step is the return of the read handler of caller c after an upstream
\* fetch that failed
FetchFailed(c) ==
  /\ call[c].handler \in ReadHandlers
  /\ call[c].pc = "execute"
  /\ call'[c].pc = "idle"
  /\ exec[c].result # "value"

IsUnavailable(envelope) ==
  /\ HasField(envelope, "error")
  /\ envelope.error = "UNAVAILABLE"
  /\ envelope.source = "cache"

\* C20: read miss without a usable upstream: when the key is absent from
\* the cache and either the state is not connected (upstream is then not
\* invoked) or the upstream fetch fails, the read tool returns an error
\* envelope with error.code = UNAVAILABLE and _metadata.source = cache, and
\* the cache is left unchanged.
MissNotConnected ==
  \A c \in Callers :
    (ReadMisses(c) /\ state # "connected") =>
      /\ call'[c].pc = "idle"
      /\ IsUnavailable(call'[c].envelope)
      /\ exec' = exec
      /\ UNCHANGED <<documents, memories>>

MissFetchFailed ==
  \A c \in Callers :
    (ReadMisses(c) /\ state = "connected") \/ FetchFailed(c) =>
      /\ FetchFailed(c) => IsUnavailable(call'[c].envelope)
      /\ UNCHANGED <<documents, memories>>

C20_ReadMissUnavailable == [][MissNotConnected /\ MissFetchFailed]_vars

\* C20 witness: get_memory missed the cache, upstream failed the fetch, and
\* the call returned UNAVAILABLE with the cache still empty.
C20_Witness ==
  /\ HasReturned(1)
  /\ call[1].handler = "handleGetMemory"
  /\ IsUnavailable(call[1].envelope)
  /\ exec[1].result = "error"
  /\ memories = <<>>
  /\ documents = <<>>

(***************************************************************************)
(* Claims about SSEInvalidationListener                                    *)
(***************************************************************************)
\* the events an event's data carries, and the keys they name
EventsOf(data, batch) ==
  IF data.parses /\ data.isArray = batch
    THEN {data.value[i] : i \in DOMAIN data.value}
    ELSE {}

NamedDocKeys(events) ==
  {<<e.docType, e.name, GivenProject(e.project)>> :
     e \in {x \in events : x.type = "document" /\ x.docType \notin {undefined, ""}}}

NamedMemKeys(events) ==
  {<<e.name, GivenProject(e.project)>> : e \in {x \in events : x.type = "memory"}}

OtherTasksUnchanged(t) == \A u \in CacheCallers \ {t} : tasks'[u] = tasks[u]

\* the step is the handling of a single event by caller t
EventStep(t) ==
  /\ tasks[t].pc = "idle"
  /\ tasks'[t].pc = "idle"
  /\ tasks'[t].method = "handleInvalidationEvent"
  /\ OtherTasksUnchanged(t)
  /\ \/ tasks[t].method # "handleInvalidationEvent"
     \/ tasks'[t].args # tasks[t].args
     \/ documents' # documents
     \/ memories' # memories

\* the step is the arrival of a batch event, handled by caller t
BatchArrives(t) ==
  /\ tasks[t].pc = "idle"
  /\ tasks'[t].method = "handleBatchInvalidation"
  /\ \/ tasks'[t].pc = "members"
     \/ tasks[t].method # "handleBatchInvalidation"
     \/ tasks'[t].args # tasks[t].args

\* the step is a step of the batch handler that runs as caller t
BatchStep(t) ==
  /\ tasks[t].pc = "members"
  /\ tasks'[t].pc = "idle" \/ tasks'[t].seen # tasks[t].seen

\* C21: push invalidation removes exactly the named rows: each
\* document:invalidate, memory:invalidate or cache:invalidate:batch event
\* deletes from the cache every row it names (by docType/name/project or
\* name/project) and no other row, so a get for a named key returns none
\* afterwards; an event that is malformed, or a document event without
\* docType, deletes nothing and does not stop the listener.
SingleEventExact ==
  \A t \in CacheCallers :
    EventStep(t) =>
      LET events == EventsOf(tasks'[t].args, FALSE) IN
      /\ DocRows' = {r \in DocRows : DocKey(r) \notin NamedDocKeys(events)}
      /\ MemRows' = {r \in MemRows : MemKey(r) \notin NamedMemKeys(events)}
      /\ \A key \in NamedDocKeys(events) : FindDoc(documents', key) = {}
      /\ \A key \in NamedMemKeys(events) : FindMem(memories', key) = {}
      /\ tasks'[t].returned = {TRUE}
      /\ UNCHANGED sseVars

BatchEventExact ==
  \A t \in CacheCallers :
    /\ BatchArrives(t) =>
         /\ UNCHANGED <<documents, memories, sseVars>>
         /\ tasks'[t].pc = "idle" =>
              /\ tasks'[t].returned = {TRUE}
              /\ NamedDocKeys(EventsOf(tasks'[t].args, TRUE)) = {}
              /\ NamedMemKeys(EventsOf(tasks'[t].args, TRUE)) = {}
    /\ BatchStep(t) =>
         LET events == EventsOf(tasks[t].args, TRUE) IN
         /\ DocRows' \subseteq DocRows
         /\ MemRows' \subseteq MemRows
         /\ \A r \in DocRows \ DocRows' : DocKey(r) \in NamedDocKeys(events)
         /\ \A r \in MemRows \ MemRows' : MemKey(r) \in NamedMemKeys(events)
         /\ UNCHANGED sseVars
         /\ tasks'[t].pc = "idle" =>
              /\ \A key \in NamedDocKeys(events) : FindDoc(documents', key) = {}
              /\ \A key \in NamedMemKeys(events) : FindMem(memories', key) = {}

C21_PushInvalidationExact == [][SingleEventExact /\ BatchEventExact]_vars

\* C21 witness: a batch that names the document frd/1 of project p and one
\* more key has run one of its two deletes, and the document frd/1 of the
\* global project is still cached.
C21_Witness ==
  /\ tasks[1].pc = "members"
  /\ Len(tasks[1].args.value) = 2
  /\ tasks[1].args.value[1] = [type |-> "document", docType |-> "frd", name |-> 1,
                               project |-> "p"]
  /\ tasks[1].seen = {2}
  /\ \E i \in 1..Len(documents) : DocKey(documents[i]) = <<"frd", 1, "">>

(***************************************************************************)
(* Claims about the transitions of ConnectionManager                       *)
(***************************************************************************)
\* the step is the throw of the operation that execute call e runs
OperationThrows(e) ==
  /\ exec[e].pc = "running"
  /\ exec'[e].pc = "idle"
  /\ exec'[e].result # "value"

\* C22: when op throws inside execute(op) while connected, execute calls
\* recordFailure - the supervisor leaves connected for reconnecting with a
\* reconnect scheduled - and re-throws the same error to the caller.
FailureStartsReconnect ==
  \A e \in Executors :
    (OperationThrows(e) /\ state = "connected") =>
      /\ state' = "reconnecting"
      /\ reconnectTimer'
      /\ reconnectAttempts' = reconnectAttempts + 1
      /\ exec'[e].result = "error"

C22_ThrowRecordsFailure == [][FailureStartsReconnect]_vars

\* C22 witness: an operation threw while connected; no probe has failed, yet
\* the supervisor is reconnecting with its timer armed.
C22_Witness ==
  /\ exec[1].pc = "idle"
  /\ exec[1].result = "error"
  /\ failures = 0
  /\ state = "reconnecting"
  /\ reconnectTimer
  /\ reconnectAttempts = 1

\* the step is the completion of a health check
ProbeEnds == \E origin \in ProbeOrigins : probes'[origin] = probes[origin] - 1

\* ... that found upstream healthy
ProbeSucceeded == ProbeEnds /\ failures' = 0

\* the step schedules a reconnect
ReconnectScheduled == ~reconnectTimer /\ reconnectTimer'

\* C23: a successful probe, in whatever state it completes, moves the
\* supervisor to connected, resets the reconnect-attempt counter to 0, cancels
\* the pending reconnect timer and emits 'connected'; the counter stays 0
\* while connected, so the first reconnect of the next outage is attempt 1
\* with the initial backoff delay, and that outage goes offline by exhaustion
\* only after maxReconnectAttempts reconnects were scheduled.
SuccessReconnects ==
  ProbeSucceeded =>
    /\ state' = "connected"
    /\ reconnectAttempts' = 0
    /\ ~reconnectTimer'
    /\ emitted' = [event |-> "connected"]

NextOutageStartsFresh ==
  /\ state' = "connected" => (reconnectAttempts' = 0 /\ ~reconnectTimer')
  /\ (state = "connected" /\ ReconnectScheduled) =>
       /\ reconnectAttempts' = 1
       /\ emitted' = [event |-> "reconnecting", attempt |-> 1,
                      delay |-> reconnectBackoff.initial]
  /\ maxReached' = maxReached + 1 => reconnectAttempts = maxReconnectAttempts

C23_SuccessResetsBackoff == [][SuccessReconnects /\ NextOutageStartsFresh]_vars

\* C23 witness: an operation threw, so an outage began after the supervisor
\* was connected; a probe has succeeded since and the supervisor is connected
\* again with the counter at 0 and no reconnect timer.
C23_Witness ==
  /\ exec[1].pc = "idle"
  /\ exec[1].result = "error"
  /\ state = "connected"
  /\ emitted = [event |-> "connected"]
  /\ reconnectAttempts = 0
  /\ ~reconnectTimer

\* C24: stop() is final until restart: while the supervisor is stopped the
\* state is offline, neither timer is armed and execute is refused, whatever
\* happens to a probe that was in flight when stop() was called.
C24_StopIsFinal ==
  isStopped =>
    /\ state = "offline"
    /\ ~reconnectTimer
    /\ ~healthCheckTimer

(***************************************************************************)
(* Claims about the delete tools of ProxyServer                            *)
(***************************************************************************)
\* the step is a call of a delete tool made while the supervisor is not
\* connected
DeleteCalledOffline(c) ==
  /\ call[c].pc = "idle"
  /\ call'[c] # call[c]
  /\ state # "connected"

\* C25: delete_document and delete_memory are handled by the write path:
\* called while not connected, the call enqueues one delete_* row and
\* returns {success: true, queued: true}.
C25_DeletesTakeWritePath ==
  [][\A c \in Callers :
       DeleteCalledOffline(c) =>
         /\ call'[c].pc = "idle"
         /\ HasField(call'[c].envelope, "queued")
         /\ call'[c].envelope.queued
         /\ Len(syncQueue') = Len(syncQueue) + 1
         /\ syncQueue'[Len(syncQueue')].operation = call'[c].args]_vars

(***************************************************************************)
(* Claims about the replay pass and the rows around it                     *)
(***************************************************************************)
\* the step hands the next row of the pass's snapshot to upstream
SendsNext(p) == pass[p].pc = "loop" /\ pass'[p].pc = "await"

\* a row the pass has already attempted is still pending
LeftPending(p) ==
  \E k \in 1..(pass[p].i - 1), r \in QueueRows :
    r.id = pass[p].pending[k].id /\ r.status = "pending"

\* C26: replay does not overtake a failed row: once the upstream call for a
\* row of the pass has failed and the row is still pending, the pass sends no
\* later row to upstream.
C26_NoOvertake == [][\A p \in SyncCallers : SendsNext(p) => ~LeftPending(p)]_vars

(***************************************************************************)
(* Claims about interleaved calls of CacheManager                          *)
(***************************************************************************)
AllCallsCompleted == \A t \in DOMAIN tasks : tasks[t].pc \in {"idle", "done"}

\* the sizes of the rows the calls have written
WrittenSizes ==
  {ByteLength(tasks[t].args.content) :
     t \in {u \in DOMAIN tasks : tasks[u].method \in {"setDocument", "setMemory"}}}

\* C27: concurrent inserts keep the budget: once all interleaved setDocument
\* and setMemory calls have completed, the bytes of the dynamic tier are at
\* most maxDynamicCacheSize plus the size of one of the rows written.
C27_ConcurrentInsertsKeepBudget ==
  AllCallsCompleted =>
    \A size \in WrittenSizes :
      (\A other \in WrittenSizes : other <= size) =>
        getDynamicCacheSize(documents, memories) <= maxDynamicCacheSize + size

\* the step is the return of a hit by getDocument or getMemory
ReturnsHit(t) ==
  /\ tasks[t].pc = "touch"
  /\ tasks'[t].pc = "done"
  /\ Len(tasks'[t].returned) = 1

\* the row the read observed is in the store after the step
StillCached(t) ==
  IF tasks[t].method = "getDocument"
    THEN FindDoc(documents', DocKey(tasks[t].seen[1])) # {}
    ELSE FindMem(memories', MemKey(tasks[t].seen[1])) # {}

\* C28: reads are atomic with respect to eviction: no getDocument or
\* getMemory returns a hit for a row that an eviction interleaved with the
\* read has deleted, and its lastAccessedAt update finds the row it observed.
C28_ReadsAtomicWithEviction ==
  [][\A t \in DOMAIN tasks : ReturnsHit(t) => StillCached(t)]_vars

\* the ids of the rows of the snapshot pass p took
SnapshotIds(p) == {pass[p].pending[k].id : k \in 1..Len(pass[p].pending)}

\* pass p has taken its snapshot and has not finished
PassRunning(p) == pass[p].pc \in {"loop", "await"}

\* the step is the select of pass p: its snapshot is the pending rows
Selects(p) == pass[p].pc = "select" /\ pass'[p].pc = "loop"

SnapshotIsPending ==
  \A p \in SyncCallers :
    Selects(p) =>
      {pass'[p].pending[k].id : k \in 1..Len(pass'[p].pending)}
        = {r.id : r \in {q \in QueueRows : q.status = "pending"}}

\* the step enqueues a row while a pass is running: the row is appended,
\* pending with attempts 0, and is in no snapshot
EnqueuedBesidePass ==
  \A p \in SyncCallers :
    (PassRunning(p) /\ Len(syncQueue') = Len(syncQueue) + 1) =>
      LET row == syncQueue'[Len(syncQueue')] IN
      /\ row.status = "pending"
      /\ row.attempts = 0
      /\ row.id \notin SnapshotIds(p)
      /\ pass'[p] = pass[p]

\* a step of pass p sends a row of its snapshot only, and leaves every row
\* outside its snapshot as it is, its end-of-pass cleanup included
PassKeepsToSnapshot ==
  \A p \in SyncCallers :
    (PassRunning(p) /\ pass'[p] # pass[p]) =>
      /\ SendsNext(p) => sentLog'[Len(sentLog')] \in SnapshotIds(p)
      /\ \A r \in QueueRows :
           r.id \notin SnapshotIds(p) => r \in {syncQueue'[k] : k \in 1..Len(syncQueue')}
      /\ pass'[p].pc = "idle" =>
           SnapshotIds(p) \subseteq {sentLog[k] : k \in 1..Len(sentLog)}

\* C29: rows enqueued while a replay pass is running are not lost and not
\* sent by that pass: the pass sends only the rows of the snapshot it took
\* when it started; a row enqueued meanwhile stays pending with attempts 0,
\* the end-of-pass cleanup keeps it, and the next pass, whose snapshot holds
\* every pending row and which sends every row of its snapshot, sends it.
C29_EnqueueDuringReplay ==
  [][SnapshotIsPending /\ EnqueuedBesidePass /\ PassKeepsToSnapshot]_vars

\* C29 witness: a pass whose snapshot was row 1 alone has sent it and is
\* about to finish, while row 2, enqueued meanwhile, is pending with
\* attempts 0.
C29_Witness ==
  \E p \in SyncCallers :
    /\ pass[p].pc = "loop"
    /\ pass[p].i > Len(pass[p].pending)
    /\ SnapshotIds(p) = {1}
    /\ sentLog = <<1>>
    /\ Len(syncQueue) = 2
    /\ syncQueue[1].status = "completed"
    /\ syncQueue[2].id = 2
    /\ syncQueue[2].status = "pending"
    /\ syncQueue[2].attempts = 0

\* C30: offline is terminal: once the supervisor has gone offline because
\* the reconnect attempts were exhausted, and has not been stopped or
\* started again, no step takes it to another state.
C30_OfflineIsTerminal ==
  [][(state = "offline" /\ maxReached > 0 /\ ~isStopped) => state' = "offline"]_vars

(***************************************************************************)
(* Claims about the progress of the write queue                            *)
(***************************************************************************)
IsPending(id) == \E r \in QueueRows : r.id = id /\ r.status = "pending"

\* a failed row is in the queue after the step as it was before it, unless
\* the step is retryOperation of that row or clearFailed
FailedRowsStay ==
  \A r \in QueueRows :
    r.status = "failed" =>
      \/ r \in QueueRows'
      \/ /\ pass' = pass
         /\ \E q \in QueueRows' : q.id = r.id /\ q.status = "pending" /\ q.attempts = 0
      \/ /\ pass' = pass
         /\ \A q \in QueueRows' : q.status # "failed"

\* C31: when replay passes keep being triggered, every pending row eventually
\* leaves the pending set (delivered and deleted, or failed after maxAttempts
\* failed attempts), whatever the rows before it do; a failed row stays in
\* the queue until retryOperation of it or clearFailed.
C31_QueueProgress ==
  /\ \A id \in 1..MaxQueued : IsPending(id) ~> ~IsPending(id)
  /\ [](\A r \in QueueRows : r.status = "failed" => r.attempts = maxAttempts)
  /\ [][FailedRowsStay]_vars

\* a later row was delivered and deleted while an earlier row, which failed
\* maxAttempts times, is kept as failed
C31_Witness ==
  /\ Len(syncQueue) = 1
  /\ syncQueue[1].status = "failed"
  /\ syncQueue[1].id = 1
  /\ nextId > 2

(***************************************************************************)
(* Claims about the backoff schedule of ConnectionManager                  *)
(***************************************************************************)
\* the delay of the k-th reconnect since the last successful probe
BackoffDelay(k) ==
  Min(reconnectBackoff.initial * pow(reconnectBackoff.multiplier, k - 1),
      reconnectBackoff.max)

\* the schedule over the attempts of the default configuration: what
\* scheduleReconnect computes is BackoffDelay, which never exceeds max, never
\* decreases, and increases strictly while below max
BackoffSchedule ==
  \A k \in 1..DefaultMaxReconnectAttempts :
    /\ reconnectDelay(k - 1) = BackoffDelay(k)
    /\ BackoffDelay(k) <= reconnectBackoff.max
    /\ k > 1 => /\ BackoffDelay(k) >= BackoffDelay(k - 1)
                /\ BackoffDelay(k - 1) < reconnectBackoff.max
                     => BackoffDelay(k) > BackoffDelay(k - 1)

\* the attempt counter is the number of reconnects scheduled since the last
\* successful probe: a step that schedules one adds 1 and emits 'reconnecting'
\* with that attempt and its delay, a successful probe sets 0, and no other
\* step changes it
CountsReconnects ==
  /\ ReconnectScheduled =>
       /\ reconnectAttempts' = reconnectAttempts + 1
       /\ emitted' = [event |-> "reconnecting", attempt |-> reconnectAttempts',
                      delay |-> BackoffDelay(reconnectAttempts')]
  /\ ProbeSucceeded => reconnectAttempts' = 0
  /\ ~ReconnectScheduled /\ ~ProbeSucceeded => reconnectAttempts' = reconnectAttempts

\* C32: the k-th reconnect scheduled since the last successful probe uses
\* delay = min(initial * multiplier^(k-1), max) and emits reconnecting with
\* attempt = k and that delay; successive delays are non-decreasing, strictly
\* increasing while below max, and never exceed max.
C32_BackoffSchedule ==
  /\ reconnectAttempts = 0
  /\ []BackoffSchedule
  /\ [][CountsReconnects]_vars

\* the second reconnect of an outage was scheduled, with twice the initial delay
C32_Witness ==
  /\ reconnectTimer
  /\ emitted.event = "reconnecting"
  /\ emitted.attempt = 2
  /\ emitted.delay = 2 * reconnectBackoff.initial

(***************************************************************************)
(* Claims about rewriting a cached key                                     *)
(***************************************************************************)
\* a step gave the row of an existing key another content: only setDocument
\* and setMemory on a key that is already cached do
RewrittenDocs ==
  {j \in 1..Len(documents') :
     \E i \in 1..Len(documents) :
       /\ DocKey(documents[i]) = DocKey(documents'[j])
       /\ documents[i].content # documents'[j].content}

RewrittenMems ==
  {j \in 1..Len(memories') :
     \E i \in 1..Len(memories) :
       /\ MemKey(memories[i]) = MemKey(memories'[j])
       /\ memories[i].content # memories'[j].content}

\* C33: setDocument / setMemory on a key that is already cached overwrites
\* content, sizeBytes and lastAccessedAt and sets cachedAt to the current
\* clock, so the age the next get reports counts from the latest write.
C33_ResetRefreshesWriteTime ==
  [][/\ \A j \in RewrittenDocs :
          /\ documents'[j].lastAccessedAt = now
          /\ documents'[j].sizeBytes = ByteLength(documents'[j].content)
          /\ documents'[j].cachedAt = now
          /\ CachedItem(documents'[j], now).age = 0
     /\ \A j \in RewrittenMems :
          /\ memories'[j].lastAccessedAt = now
          /\ memories'[j].sizeBytes = ByteLength(memories'[j].content)
          /\ memories'[j].cachedAt = now
          /\ CachedItem(memories'[j], now).age = 0]_vars

(***************************************************************************)
(* Claims about the order of eviction among equally old rows               *)
(***************************************************************************)
\* the step deletes row i of the table (rows of one table differ in name) and
\* keeps an earlier-inserted candidate of the same lastAccessedAt
OvertakesIn(rows, after, candidates) ==
  \E i, j \in 1..Len(rows) :
    /\ j < i
    /\ rows[i].name \notin {after[k].name : k \in 1..Len(after)}
    /\ rows[j].name \in {after[k].name : k \in 1..Len(after)}
    /\ rows[j] \in {candidates[k] : k \in 1..Len(candidates)}
    /\ rows[j].lastAccessedAt = rows[i].lastAccessedAt

ListenerDid(method) ==
  /\ call'[KeysCaller].handler = method
  /\ call'[KeysCaller].args = ListenerFields
  /\ UNCHANGED <<now, cacheVars, tasks>>

\* a stream is opened: the field goes from null to a stream
StreamOpened == eventSource = null /\ eventSource' # null

ListenerLifecycle ==
  /\ ListenerDid("onerror") /\ isActive =>
       /\ eventSource' = null
       /\ reconnectTimeout'
       /\ isActive'
  /\ ListenerDid("onerror") /\ ~isActive => UNCHANGED sseVars
  /\ ListenerDid("stop") =>
       /\ ~isActive' /\ ~reconnectTimeout' /\ eventSource' = null
       /\ ~isActive => UNCHANGED sseVars
  /\ ListenerDid("start") /\ isActive => UNCHANGED sseVars
  /\ ListenerDid("isListening") /\ ~isActive => call'[KeysCaller].envelope = {FALSE}
  /\ ~isActive /\ ~ListenerDid("start") =>
       /\ ~isActive'
       /\ ~StreamOpened
  /\ StreamOpened =>
       \/ ListenerDid("start") /\ ~isActive
       \/ ListenerDid("timeout") /\ isActive

\* C35: while the listener is active a stream error closes the stream and
\* leaves exactly one reconnect scheduled; after stop() no stream is opened
\* until start() is called again: the pending reconnect timeout is cancelled,
\* an error delivered after stop() schedules none, and isListening() is
\* false; start() on an active listener and stop() on a stopped one change
\* nothing.
C35_ListenerLifecycle ==
  /\ [](~isActive => eventSource = null /\ ~reconnectTimeout /\ ~isListening)
  /\ [][ListenerLifecycle]_vars

\* an error was delivered to the stopped listener, which stays stopped with
\* no reconnect scheduled
C35_Witness ==
  /\ call[KeysCaller].handler = "onerror"
  /\ call[KeysCaller].args[1] = FALSE
  /\ ~isActive
  /\ ~reconnectTimeout
  /\ eventSource = null

(***************************************************************************)
(* Claims about the order in which writes of one key reach upstream        *)
(***************************************************************************)
PayloadKey(args) == <<args.docType, args.name>>

\* the queue is drained and nothing is in flight: no row is left, no pass
\* runs, no tool call runs
Drained ==
  /\ syncQueue = <<>>
  /\ ~isSyncing
  /\ \A p \in SyncCallers : AtRest(p)
  /\ NoCallRunning

\* the step hands a live write to upstream while an earlier write of the
\* same key is a row of the queue
LiveOvertakesQueued ==
  /\ Len(accepted') = Len(accepted) + 1
  /\ accepted'[Len(accepted')].id = 0
  /\ \E r \in QueueRows :
       /\ r.status \in {"pending", "syncing"}
       /\ PayloadKey(JSONparse(r.payload)) = PayloadKey(accepted'[Len(accepted')].args)

\* C36: a write issued while connected is not delivered to upstream ahead of
\* an earlier write of the same key that is still in the queue; so once the
\* queue is drained and nothing is in flight, the last value upstream
\* received for the document is the value held in the local cache.
C36_SameKeyWritesInOrder ==
  /\ [][~LiveOvertakesQueued]_vars
  /\ [](Drained /\ accepted # <<>> =>
          \A i \in FindDoc(documents, <<"workflow", 1, "">>) :
            documents[i].content = accepted[Len(accepted)].args.content)

(***************************************************************************)
(* Claims about push invalidation and fetches in flight                    *)
(***************************************************************************)
\* an invalidation of the document was handled after upstream answered the
\* fetch that is in flight
InvalidatedSinceAnswer(key) ==
  \E t \in CacheCallers :
    /\ tasks[t].method = "handleInvalidationEvent"
    /\ tasks[t].args = PushedData(key)

\* the step is the read handler of caller c caching the row upstream answered
StoresFetched(c) ==
  /\ call[c].pc = "execute"
  /\ call[c].handler = "handleGetDocument"
  /\ exec[c].pc = "idle"
  /\ exec[c].result = "value"
  /\ call'[c].pc = "idle"
  /\ CachedRowsAfter(call[c].handler, call[c].args) # {}

\* C37: an invalidation is not undone by a fetch in flight: when a push
\* invalidation of a document is handled while a read-miss fetch of it is in
\* flight, the cache does not hold, after both have completed, the content
\* upstream returned before the invalidation.
C37_InvalidationBeatsFetch ==
  [][\A c \in Callers :
       ~(StoresFetched(c) /\ InvalidatedSinceAnswer(call[c].args))]_vars

(***************************************************************************)
(* Claims about the replay pass and the state of the supervisor            *)
(***************************************************************************)
\* the step hands a row of the queue to upstream
SendsRow == Len(sentLog') = Len(sentLog) + 1

\* the step counts a failed attempt against a row: its attempts grow
CountsAttempt ==
  \E i \in 1..Len(syncQueue) :
    /\ i <= Len(syncQueue')
    /\ syncQueue'[i].id = syncQueue[i].id
    /\ syncQueue'[i].attempts > syncQueue[i].attempts

\* C38: a replay pass invokes upstream for a queued row only while the
\* supervisor is connected; when the connection is lost during a pass the
\* remaining rows are not attempted, so no attempt is counted against a row,
\* and no row fails, while the supervisor is not connected.
C38_ReplayOnlyWhileConnected ==
  [][/\ SendsRow => state = "connected"
     /\ CountsAttempt => state = "connected"]_vars

(***************************************************************************)
(* Claims about the reported state and the reconnect timer                 *)
(***************************************************************************)
\* C39: in every reachable state of the supervisor, whenever a reconnect
\* timer is armed the state getState() returns is reconnecting (at most one
\* reconnect timer is armed at a time: the field holds one timer).
C39_TimerMeansReconnecting == reconnectTimer => state = "reconnecting"

(***************************************************************************)
(* Claims about the recovery of ConnectionManager                          *)
(***************************************************************************)
\* the step is a health check that failed
ProbeFailed == failures' = failures + 1

\* the supervisor has just connected: the state and the event of healthCheck
JustConnected == state = "connected" /\ emitted = [event |-> "connected"]

\* C40: when start() has been called, stop() is not called any more, and
\* from some point on every probe succeeds, then, timers firing fairly, the
\* supervisor reaches connected and emits 'connected', from whatever state it
\* is in.
C40_RecoveryLiveness ==
  (<>[](started /\ ~isStopped) /\ <>[][~ProbeFailed]_vars) => []<>JustConnected

\* the supervisor is connected again after an operation of each caller of
\* execute failed
C40_Witness ==
  /\ started /\ ~isStopped
  /\ \A e \in Executors : exec[e].pc = "idle" /\ exec[e].result = "error"
  /\ JustConnected
  /\ failures = 0

====
